---- MODULE Spec2Model ----
\* The edge server of ha-tunnel (server/src/proxy.rs, server/src/auth.rs,
\* common/src/tunnel.rs) as a state machine: one handle_tunnel_socket task and
\* one outbound task per control connection, one handle_api_request task per
\* public request, the session index state.clients, the table
\* state.pending_requests and the watch channel client_connected_tx/rx.
\* The tunnel client and the public callers are the environment.
EXTENDS Integers, Sequences, FiniteSets, TLC

\* ---------------------------------------------------------------- bounds
NConn == 2          \* control connections the environment opens
NReq == 2           \* public requests the environment issues
MaxPings == 1       \* ping frames the environment sends in one run
QueueCap == 1       \* capacity of a session's outbound queue; the program
                    \* uses 100 (proxy.rs:126), scaled down here
ClientQueueCap == 1 \* capacity of the client's outbound channel; the program
                    \* uses 100 (tunnel_client.rs:61), scaled down here

Conns == 1..NConn
Reqs == 1..NReq
ClientIds == {"a", "b"}
Shards == {1, 2}    \* shards of the DashMap state.clients
NoReq == 0
NoId == "-"

\* ----------------------------------------------------- program constants
AuthWindow == 120       \* auth.rs:12
Secret == "s"           \* state.config.secret
ServerNow == 1000       \* the server clock in the multiplexer specification

\* --------------------------------------------------------- TunnelMessage
AuthMsg(id, ts, sig) ==
    [type |-> "auth", client_id |-> id, timestamp |-> ts, signature |-> sig]
AuthResponse(ok) ==
    [type |-> "auth_response", success |-> ok,
     message |-> IF ok THEN "" ELSE "Invalid signature"]
HttpRequest(r) == [type |-> "http_request", request_id |-> r]
HttpResponse(r, st, hs, b) ==
    [type |-> "http_response", request_id |-> r, status |-> st, headers |-> hs,
     body |-> b]
ErrorMsg(r, code, message) ==
    [type |-> "error", request_id |-> r, code |-> code, message |-> message]
Ping(t) == [type |-> "ping", timestamp |-> t]
Pong(t) == [type |-> "pong", timestamp |-> t]
NoMsg == [type |-> "none"]

\* ------------------------------------------------------------- auth.rs
\* HMAC-SHA256(secret, "<client_id>:<timestamp>") in hex, as an injective
\* function of its three inputs: the signature is the sequence of the three.
generate_auth_signature(id, ts, secret) == <<secret, id, ts>>

\* a.saturating_sub(b) in place of a.abs_diff(b)
abs_diff_saturating(a, b) == IF a >= b THEN a - b ELSE 0

abs_diff(a, b) == IF a >= b THEN a - b ELSE b - a

\* expected.len() == signature.len() && all bytes equal
SigEqual(expected, signature) ==
    /\ Len(expected) = Len(signature)
    /\ \A i \in 1..Len(expected) : expected[i] = signature[i]

\* verify_auth_signature without the check of the timestamp
verify_auth_signature_nowindow(id, ts, sig, secret, now) ==
    SigEqual(generate_auth_signature(id, ts, secret), sig)

verify_auth_signature(id, ts, sig, secret, now) ==
    IF abs_diff(now, ts) > AuthWindow
    THEN FALSE
    ELSE SigEqual(generate_auth_signature(id, ts, secret), sig)

\* ------------------------------------------------------------ frames
\* A WebSocket frame as the reader sees it: Ok(Message::Text), Ok(Message::
\* Binary), Ok(Message::Close), Err(_), or the end of the stream (None).
\* json is FALSE for a payload serde_json cannot parse as a TunnelMessage.
Text(m) == [kind |-> "text", json |-> TRUE, msg |-> m]
Binary(m) == [kind |-> "binary", json |-> TRUE, msg |-> m]
Garbage == [kind |-> "text", json |-> FALSE, msg |-> NoMsg]
CloseFrame == [kind |-> "close", json |-> FALSE, msg |-> NoMsg]
ErrFrame == [kind |-> "err", json |-> FALSE, msg |-> NoMsg]
EndOfStream == [kind |-> "end", json |-> FALSE, msg |-> NoMsg]
NoFrame == [kind |-> "none", json |-> FALSE, msg |-> NoMsg]

\* serde_json::from_str::<TunnelMessage>(&text) on a text frame
ParsesAs(f, type) == f.kind = "text" /\ f.json /\ f.msg.type = type

PingTimes == {7}            \* timestamps a client puts in ping

\* first frames of the multiplexer specification
MuxFirstFrames ==
    {Text(AuthMsg(id, ServerNow, generate_auth_signature(id, ServerNow, Secret))) :
        id \in ClientIds}
    \cup {Text(AuthMsg("a", ServerNow, generate_auth_signature("a", ServerNow, "x"))),
          Garbage}
MuxNows == {ServerNow}

\* first frames and clock readings of the handshake specification
AuthNows == {0, ServerNow}
AuthTimes == {0, AuthWindow, AuthWindow + 1,
              ServerNow - AuthWindow - 1, ServerNow - AuthWindow, ServerNow,
              ServerNow + AuthWindow, ServerNow + AuthWindow + 1}
AuthSigs(id, ts) ==
    {generate_auth_signature(id, ts, Secret),       \* the right signature
     generate_auth_signature(id, ts, "x"),          \* signed with another secret
     generate_auth_signature(id, ServerNow, Secret),\* signed for another timestamp
     generate_auth_signature("a", ts, Secret),      \* signed for client "a"
     <<Secret, id>>}                                \* of another length
AuthFirstFrames ==
    {Text(AuthMsg(id, ts, sig)) : id \in ClientIds, ts \in AuthTimes,
        sig \in UNION {AuthSigs(i, t) : i \in ClientIds, t \in AuthTimes}}
    \cup {Binary(AuthMsg("a", ServerNow, generate_auth_signature("a", ServerNow, Secret))),
          Text(Ping(7)), Text(AuthResponse(TRUE)), Garbage, CloseFrame,
          ErrFrame, EndOfStream}
MuxStatuses == {200}     \* status fields a client puts in http_response
MuxHeaders == {<<>>}      \* header lists a client puts in http_response
\* code and message a client puts in error
MuxErrors == {[code |-> "upstream_error", message |-> "e"]}

VARIABLES
    cpc,        \* [Conns -> position of handle_tunnel_socket]
    cid,        \* [Conns -> client_id bound at line 75, or NoId]
    first,      \* [Conns -> [frame, now]]: the first frame and the clock it was verified at
    wire,       \* [Conns -> sequence of messages handed to ws_tx.send]
    wtask,      \* [Conns -> position of the outbound task]
    queue,      \* [Conns -> contents of the mpsc channel created at line 126]
    pingT,      \* [Conns -> timestamp of the ping being handled]
    clients,    \* state.clients: [ClientIds -> ClientConnection or NoEntry]
    shardOf,    \* [ClientIds -> Shards]: the DashMap shard of each key
    watchVer,   \* version of the watch channel client_connected_tx
    pending,    \* state.pending_requests: the request ids that hold a oneshot sender
    rpc,        \* [Reqs -> position of handle_api_request]
    chosen,     \* [Reqs -> key of the entry `client` refers to, or NoId]
    seen,       \* [Reqs -> version the handler's watch receiver has seen]
    slot,       \* [Reqs -> [msg, from]]: what was sent into the oneshot channel
    status,     \* [Reqs -> status returned to the public caller, 0 before]
    outcome,    \* [Reqs -> the branch of handle_api_request that returned]
    hist,       \* [Reqs -> [ins, rem, enq]]: history of the request's id
    pings,      \* ping frames received so far
    regs,       \* the connections in the order of their insert at line 129
    reply,      \* [Reqs -> [headers, body]] returned to the public caller
    \* the tunnel client (client/src/main.rs, tunnel_client.rs, proxy.rs)
    features,   \* config.features: [assistant_alexa, assistant_google]
    shutdown,   \* value of the watch channel shutdown_tx
    kpc,        \* position of the client's main loop
    kmsg,       \* the inbound message handle_request is working on
    kres,       \* the reply handle_request returned, on its way into tx
    kha,        \* requests issued to Home Assistant so far
    klog,       \* <<message, reply>> of every call of handle_request so far
    kout,       \* the outbound channel of the current connection
    kwtask,     \* position of the writer task of the current connection
    beats,      \* pings the heartbeat task has sent
    hbeats,     \* heartbeat tasks spawned and not aborted
    \* extract_client_ip (server/src/client_ip.rs)
    ipcfg,      \* config: [proxy_mode, trusted_proxies]
    ipcalls,    \* the calls so far: sequence of [peer, header, out]
    \* the bounded channels
    capacity    \* [server, client]: capacity of mpsc::channel in proxy.rs:126
                \* and in tunnel_client.rs:61

vars == <<cpc, cid, first, wire, wtask, queue, pingT, clients, shardOf,
          watchVer, pending, rpc, chosen, seen, slot, status, outcome, hist, pings,
          regs, reply, features, shutdown, kpc, kmsg, kres, kha, klog, kout,
          kwtask, beats, hbeats, ipcfg, ipcalls, capacity>>

connVars == <<cpc, cid, first, wire, wtask, queue, pingT, regs>>
reqVars == <<rpc, chosen, seen, slot, status, outcome, hist, reply>>
serverVars == <<connVars, reqVars, clients, shardOf, watchVer, pending, pings>>
clientVars == <<features, shutdown, kpc, kmsg, kres, kha, klog, kout, kwtask, beats,
                hbeats>>
\* what the server's steps leave alone
ipVars == <<ipcfg, ipcalls>>
cfgVars == <<capacity>>
outside == <<clientVars, ipVars, cfgVars>>

NoEntry == [sender |-> 0, last_ping |-> 0]
ClientConnection(c, now) == [sender |-> c, last_ping |-> now]
NoSlot == [msg |-> NoMsg, from |-> 0]
NoHist == [ins |-> 0, rem |-> 0, enq |-> <<>>]
NoReply == [headers |-> <<>>, body |-> ""]

\* the server after main.rs built ServerState
InitServer ==
    /\ cpc = [c \in Conns |-> "auth_wait"]
    /\ cid = [c \in Conns |-> NoId]
    /\ first = [c \in Conns |-> [frame |-> NoFrame, now |-> 0]]
    /\ wire = [c \in Conns |-> <<>>]
    /\ wtask = [c \in Conns |-> "none"]
    /\ queue = [c \in Conns |-> <<>>]
    /\ pingT = [c \in Conns |-> 0]
    /\ clients = [k \in ClientIds |-> NoEntry]
    /\ shardOf \in {f \in [ClientIds -> Shards] : f["a"] = 1}
    /\ watchVer = 0
    /\ pending = {}
    /\ rpc = [r \in Reqs |-> "start"]
    /\ chosen = [r \in Reqs |-> NoId]
    /\ seen = [r \in Reqs |-> 0]
    /\ slot = [r \in Reqs |-> NoSlot]
    /\ status = [r \in Reqs |-> 0]
    /\ outcome = [r \in Reqs |-> "none"]
    /\ hist = [r \in Reqs |-> NoHist]
    /\ pings = 0
    /\ regs = <<>>
    /\ reply = [r \in Reqs |-> NoReply]

\* the client before the first pass of 'main_loop, with the features F
InitClient(F) ==
    /\ features \in F
    /\ shutdown = FALSE
    /\ kpc = "top"
    /\ kmsg = NoMsg
    /\ kres = NoMsg
    /\ kha = <<>>
    /\ klog = <<>>
    /\ kout = <<>>
    /\ kwtask = "none"
    /\ beats = 0
    /\ hbeats = 0

\* config.rs:53-54: both features are on unless configured otherwise
DefaultFeatures == [assistant_alexa |-> TRUE, assistant_google |-> TRUE]

\* config.rs: proxy_mode defaults to none, trusted_proxies to the empty list
DefaultProxy == [proxy_mode |-> "none", trusted_proxies |-> {}]

\* the server's proxy settings are one of P; no request has arrived yet
InitIp(P) ==
    /\ ipcfg \in P
    /\ ipcalls = <<>>

\* the channels are created with the capacities C
InitQueues(C) == capacity \in C

\* proxy.rs:126 and tunnel_client.rs:61, scaled down
DefaultCapacity == [server |-> QueueCap, client |-> ClientQueueCap]

Init ==
    /\ InitServer
    /\ InitClient({DefaultFeatures})
    /\ InitIp({DefaultProxy})
    /\ InitQueues({DefaultCapacity})

\* ------------------------------------------------- DashMap shard locks
\* state.clients.iter().next() returns a RefMulti that holds the read lock of
\* the entry's shard; handle_api_request binds it to `client` (lines 247-283)
\* and keeps it until the function returns.
RefHeld == {"insert", "send", "await", "timeout"}
ReadHolders(s) == {r \in Reqs : rpc[r] \in RefHeld /\ shardOf[chosen[r]] = s}
\* state.clients.get_mut() returns a RefMut that holds the write lock of the
\* shard; the ping branch keeps it across client.sender.send().await (211-218).
WriteHolders(s) == {c \in Conns : cpc[c] = "ping_send" /\ shardOf[cid[c]] = s}
CanRead(s) == WriteHolders(s) = {}
CanWrite(s) == ReadHolders(s) = {} /\ WriteHolders(s) = {}
\* len() and is_empty() take the read lock of every shard
CanReadAll == \A s \in Shards : CanRead(s)

IsEmpty == \A k \in ClientIds : clients[k] = NoEntry

\* ------------------------------------------------- mpsc channel (line 126)
\* The receiver lives in the outbound task: the channel is closed once that
\* task has ended. The only sender is the one stored in the session index.
Closed(c) == wtask[c] = "ended"
\* the sender kept for as long as the session's reader loop runs
SenderAlive_reader(c) == cpc[c] \in {"notify", "read", "ping", "ping_send", "cleanup"}

SenderAlive(c) == \E k \in ClientIds : clients[k].sender = c
Full(c) == Len(queue[c]) >= capacity.server

\* ------------------------------------------ handle_tunnel_socket: auth
\* lines 83-101: the signature verifies and auth_response{success:true} is
\* handed to ws_tx.send; when that send fails the function returns (97-99)
AuthAccept(c, f) ==
    /\ wire' = [wire EXCEPT ![c] = Append(@, AuthResponse(TRUE))]
    /\ cid' = [cid EXCEPT ![c] = f.msg.client_id]
    /\ \E sent \in BOOLEAN :
        cpc' = [cpc EXCEPT ![c] = IF sent THEN "register" ELSE "done"]

\* lines 102-111: auth_response{success:false} is sent, then return
AuthReject(c, f) ==
    /\ wire' = [wire EXCEPT ![c] = Append(@, AuthResponse(FALSE))]
    /\ cpc' = [cpc EXCEPT ![c] = "done"]
    /\ UNCHANGED cid

\* a first frame that is no auth message answered like a failed one
AuthInvalid_replies(c, f) == AuthReject(c, f)

\* lines 113-122: any other first frame, return without a frame
AuthInvalid(c, f) ==
    /\ cpc' = [cpc EXCEPT ![c] = "done"]
    /\ UNCHANGED <<wire, cid>>

\* lines 73-123: the first frame arrives before the deadline
AuthRecv(c, Frames, Nows) ==
    /\ cpc[c] = "auth_wait"
    /\ \E f \in Frames, now \in Nows :
        /\ first' = [first EXCEPT ![c] = [frame |-> f, now |-> now]]
        /\ IF ParsesAs(f, "auth")
           THEN IF verify_auth_signature(f.msg.client_id, f.msg.timestamp,
                                         f.msg.signature, Secret, now)
                THEN AuthAccept(c, f)
                ELSE AuthReject(c, f)
           ELSE AuthInvalid(c, f)
    /\ UNCHANGED <<wtask, queue, pingT, clients, shardOf, outside, watchVer,
                   pending, reqVars, pings, regs>>

\* lines 73, 119-122: the 10 s deadline passes with no frame
AuthTimeout(c) ==
    /\ cpc[c] = "auth_wait"
    /\ cpc' = [cpc EXCEPT ![c] = "done"]
    /\ UNCHANGED <<cid, first, wire, wtask, queue, pingT, clients,
                   shardOf, outside, watchVer, pending, reqVars, pings, regs>>

\* lines 125-137: create the channel, insert the session under client_id
Register(c, Nows) ==
    /\ cpc[c] = "register"
    /\ CanWrite(shardOf[cid[c]])
    /\ \E now \in Nows :
        clients' = [clients EXCEPT ![cid[c]] = ClientConnection(c, now)]
    /\ regs' = Append(regs, c)
    /\ cpc' = [cpc EXCEPT ![c] = "notify"]
    /\ UNCHANGED <<cid, first, wire, wtask, queue, pingT, shardOf, outside,
                   watchVer, pending, reqVars, pings>>

\* a send that wakes no receiver
Publish_silent(v) == v

\* line 141: watch::Sender::send stores the value and advances the channel's
\* version, whether or not the value differs from the one before
Publish(v) == v + 1

\* lines 139-161: publish the connection count, spawn the outbound task
Notify(c) ==
    /\ cpc[c] = "notify"
    /\ CanReadAll
    /\ watchVer' = Publish(watchVer)
    /\ wtask' = [wtask EXCEPT ![c] = "recv"]
    /\ cpc' = [cpc EXCEPT ![c] = "read"]
    /\ UNCHANGED <<cid, first, wire, queue, pingT, clients, shardOf, outside,
                   pending, reqVars, pings, regs>>

\* --------------------------------------------- handle_client_message
\* the message sent into the request's channel whether or not a slot is found
Correlate_always(c, m) ==
    /\ pending' = pending \ {m.request_id}
    /\ slot' = [slot EXCEPT ![m.request_id] = [msg |-> m, from |-> c]]
    /\ hist' = [hist EXCEPT ![m.request_id].rem = @ + 1]

\* lines 195-209: remove the pending slot by request_id and send the message
\* into its oneshot channel; without a slot the message is dropped
Correlate(c, m) ==
    IF m.request_id \in pending
    THEN /\ pending' = pending \ {m.request_id}
         /\ slot' = [slot EXCEPT ![m.request_id] = [msg |-> m, from |-> c]]
         /\ hist' = [hist EXCEPT ![m.request_id].rem = @ + 1]
    ELSE UNCHANGED <<pending, slot, hist>>

\* lines 164-169, 195-202: an http_response frame with request_id r
RecvResponseFor(c, r, Sts, Hdrs) ==
    /\ cpc[c] = "read"
    /\ \E st \in Sts, hs \in Hdrs : Correlate(c, HttpResponse(r, st, hs, ""))
    /\ UNCHANGED <<connVars, clients, shardOf, outside, watchVer, rpc, chosen, seen,
                   status, outcome, reply, pings>>

RecvResponse(c, Sts, Hdrs) == \E r \in Reqs : RecvResponseFor(c, r, Sts, Hdrs)

\* lines 203-209: an error frame, with request_id r or without one
RecvErrorFor(c, r, Errs) ==
    /\ cpc[c] = "read"
    /\ \E e \in Errs :
        IF r # NoReq
        THEN Correlate(c, ErrorMsg(r, e.code, e.message))
        ELSE UNCHANGED <<pending, slot, hist>>
    /\ UNCHANGED <<connVars, clients, shardOf, outside, watchVer, rpc, chosen, seen,
                   status, outcome, reply, pings>>

RecvError(c, Errs) == \E r \in Reqs \cup {NoReq} : RecvErrorFor(c, r, Errs)

\* lines 210-211: a ping frame; the reader goes on to state.clients.get_mut
RecvPing(c) ==
    /\ cpc[c] = "read"
    /\ pings < MaxPings
    /\ \E t \in PingTimes : pingT' = [pingT EXCEPT ![c] = t]
    /\ pings' = pings + 1
    /\ cpc' = [cpc EXCEPT ![c] = "ping"]
    /\ UNCHANGED <<cid, first, wire, wtask, queue, clients, shardOf, outside,
                   watchVer, pending, reqVars, regs>>

\* lines 174-181 and the end of the stream: the reader loop ends
RecvEnd(c) ==
    /\ cpc[c] = "read"
    /\ \E f \in {CloseFrame, ErrFrame, EndOfStream} : f.kind # "text"
    /\ cpc' = [cpc EXCEPT ![c] = "cleanup"]
    /\ UNCHANGED <<cid, first, wire, wtask, queue, pingT, clients,
                   shardOf, outside, watchVer, pending, reqVars, pings, regs>>

\* a reader that ends its loop on a message it does not expect
Unexpected_closes(c) == RecvEnd(c)

\* lines 170-172, 182 and 221-223: the frame is logged or ignored and the loop
\* goes on to the next frame
Unexpected(c) ==
    /\ cpc[c] = "read"
    /\ UNCHANGED vars

\* lines 164-183 and 193-224: what the reader does with the frame f
ReadFrame(c, f) ==
    IF f.kind = "text"
    THEN IF ~f.json THEN Unexpected(c)
         ELSE IF f.msg.type = "http_response"
         THEN RecvResponseFor(c, f.msg.request_id, {f.msg.status}, {f.msg.headers})
         ELSE IF f.msg.type = "error"
         THEN RecvErrorFor(c, f.msg.request_id,
                           {[code |-> f.msg.code, message |-> f.msg.message]})
         ELSE IF f.msg.type = "ping"
         THEN f.msg.timestamp \in PingTimes /\ RecvPing(c)
         ELSE Unexpected(c)
    ELSE IF f.kind \in {"close", "err", "end"} THEN RecvEnd(c)
    ELSE Unexpected(c)

\* frames the reader drops: unparsable text (170-172), a binary or other
\* frame (182), a variant the server does not expect (221-223), an error
\* without request_id (204)
DroppedFrames ==
    {Garbage, Binary(Ping(7)), Text(Pong(7)), Text(AuthResponse(TRUE)),
     Text(AuthResponse(FALSE)), Text(HttpRequest(1)),
     Text(AuthMsg("a", ServerNow, generate_auth_signature("a", ServerNow, Secret))),
     Text(ErrorMsg(NoReq, "invalid_message", "Unexpected message type"))}
RecvDropped(c) == \E f \in DroppedFrames : ReadFrame(c, f)

\* lines 211-218 once get_mut has the write lock: without an entry under
\* client_id nothing is sent; otherwise last_ping is set and pong{t} goes to the
\* entry's sender, at once when the queue has room or is closed, and else the
\* reader waits in send().await with the lock held
PingLock(c, Nows) ==
    /\ cpc[c] = "ping"
    /\ CanWrite(shardOf[cid[c]])
    /\ LET e == clients[cid[c]] IN
        IF e = NoEntry
        THEN /\ cpc' = [cpc EXCEPT ![c] = "read"]
             /\ UNCHANGED <<clients, queue>>
        ELSE /\ \E now \in Nows :
                clients' = [clients EXCEPT ![cid[c]].last_ping = now]
             /\ IF Closed(e.sender)
                THEN /\ cpc' = [cpc EXCEPT ![c] = "read"]
                     /\ UNCHANGED queue
                ELSE IF ~Full(e.sender)
                THEN /\ queue' = [queue EXCEPT ![e.sender] = Append(@, Pong(pingT[c]))]
                     /\ cpc' = [cpc EXCEPT ![c] = "read"]
                ELSE /\ cpc' = [cpc EXCEPT ![c] = "ping_send"]
                     /\ UNCHANGED queue
    /\ UNCHANGED <<cid, first, wire, wtask, pingT, shardOf, outside, watchVer,
                   pending, reqVars, pings, regs>>

\* lines 215-218: the send of the pong completes, with room or with an error
PingSend(c) ==
    /\ cpc[c] = "ping_send"
    /\ LET t == clients[cid[c]].sender IN
        \/ /\ Closed(t)
           /\ UNCHANGED queue
        \/ /\ ~Closed(t)
           /\ ~Full(t)
           /\ queue' = [queue EXCEPT ![t] = Append(@, Pong(pingT[c]))]
    /\ cpc' = [cpc EXCEPT ![c] = "read"]
    /\ UNCHANGED <<cid, first, wire, wtask, pingT, clients, shardOf, outside,
                   watchVer, pending, reqVars, pings, regs>>

\* lines 186-190: remove the entry under client_id, abort the outbound task
CleanupRemove(k) == [clients EXCEPT ![k] = NoEntry]

Cleanup(c) ==
    /\ cpc[c] = "cleanup"
    /\ CanWrite(shardOf[cid[c]])
    /\ clients' = CleanupRemove(cid[c])
    /\ wtask' = [wtask EXCEPT ![c] = "ended"]
    /\ queue' = [queue EXCEPT ![c] = <<>>]
    /\ cpc' = [cpc EXCEPT ![c] = "done"]
    /\ UNCHANGED <<cid, first, wire, pingT, shardOf, outside, watchVer, pending,
                   reqVars, pings, regs>>

\* ------------------------------------- the outbound task (lines 147-161)
\* a receiver that yields the message sent last
Recv_newest(q) == [msg |-> q[Len(q)], rest |-> SubSeq(q, 1, Len(q) - 1)]

\* mpsc::Receiver::recv() on a channel that holds q: the message sent first,
\* the others stay queued (proxy.rs:148, tunnel_client.rs:66)
Recv(q) == [msg |-> Head(q), rest |-> Tail(q)]

\* lines 148-156: rx.recv() yields the next queued message and ws_tx.send
\* transmits it
WriterSend(c) ==
    /\ wtask[c] = "recv"
    /\ queue[c] # <<>>
    /\ wire' = [wire EXCEPT ![c] = Append(@, Recv(queue[c]).msg)]
    /\ queue' = [queue EXCEPT ![c] = Recv(queue[c]).rest]
    /\ UNCHANGED <<cpc, cid, first, wtask, pingT, clients, shardOf, outside, watchVer,
                   pending, reqVars, pings, regs>>

\* lines 148-158: ws_tx.send of the next message fails; the task ends and
\* drops the receiver with what is still queued
WriterFail(c) ==
    /\ wtask[c] = "recv"
    /\ queue[c] # <<>>
    /\ wire' = [wire EXCEPT ![c] = Append(@, Recv(queue[c]).msg)]
    /\ queue' = [queue EXCEPT ![c] = <<>>]
    /\ wtask' = [wtask EXCEPT ![c] = "ended"]
    /\ UNCHANGED <<cpc, cid, first, pingT, clients, shardOf, outside, watchVer,
                   pending, reqVars, pings, regs>>

\* line 148: with the queue empty and every sender dropped rx.recv() returns
\* None and the task ends
WriterEnd(c) ==
    /\ wtask[c] = "recv"
    /\ queue[c] = <<>>
    /\ ~SenderAlive(c)
    /\ wtask' = [wtask EXCEPT ![c] = "ended"]
    /\ UNCHANGED <<cpc, cid, first, wire, queue, pingT, clients, shardOf, outside,
                   watchVer, pending, reqVars, pings, regs>>

\* ------------------------------------------------ handle_api_request
\* (StatusCode, HeaderMap, body).into_response()
Response(st, hs, b) == [status |-> st, headers |-> hs, body |-> b]

Return(r, resp, how) ==
    /\ status' = [status EXCEPT ![r] = resp.status]
    /\ reply' = [reply EXCEPT ![r] = [headers |-> resp.headers, body |-> resp.body]]
    /\ outcome' = [outcome EXCEPT ![r] = how]
    /\ rpc' = [rpc EXCEPT ![r] = "done"]

\* StatusCode::from_u16(status).unwrap_or(INTERNAL_SERVER_ERROR), line 356
StatusFromU16(st) == IF st >= 100 /\ st <= 999 THEN st ELSE 500

\* lines 342-388: the status built from the message received on the oneshot
ResponseStatus(m) ==
    IF m.type = "http_response" THEN StatusFromU16(m.status)
    ELSE IF m.type = "error" THEN 403
    ELSE 500

\* (name, value) pairs a client can put in the headers of http_response
HeaderPairs ==
    {<<"Set-Cookie", "1">>, <<"set-cookie", "2">>, <<"x-a", "1">>,
     <<"Connection", "1">>, <<"TE", "1">>, <<"content-length", "2">>,
     <<"bad name", "1">>, <<"x-a", "line\nbreak">>}

\* name.to_lowercase(), line 361
to_lowercase(name) ==
    CASE name = "Set-Cookie" -> "set-cookie"
      [] name = "Connection" -> "connection"
      [] name = "TE" -> "te"
      [] OTHER -> name

\* lines 362-371
HopByHop ==
    {"content-length", "transfer-encoding", "connection", "keep-alive", "te",
     "trailers", "upgrade"}

\* name.parse::<HeaderName>(), line 376: a token, stored in lower case
HeaderNameOk(name) == name # "bad name"
\* value.parse::<HeaderValue>(), line 377: no control characters
HeaderValueOk(value) == value # "line\nbreak"

\* header_map.insert(header_name, header_value), line 379: the value replaces
\* what the map holds for the name
HeaderInsert(map, name, value) ==
    IF \E i \in 1..Len(map) : map[i][1] = name
    THEN [i \in 1..Len(map) |->
            IF map[i][1] = name THEN <<name, value>> ELSE map[i]]
    ELSE Append(map, <<name, value>>)

\* lines 361-374
SkipHeader(name) == to_lowercase(name) \in HopByHop

\* lines 357-381: the loop over the message's header list
RECURSIVE HeaderLoop(_, _)
HeaderLoop(map, hs) ==
    IF hs = <<>> THEN map
    ELSE LET name == Head(hs)[1]
             value == Head(hs)[2]
         IN IF SkipHeader(name) THEN HeaderLoop(map, Tail(hs))
            ELSE IF HeaderNameOk(name) /\ HeaderValueOk(value)
            THEN HeaderLoop(HeaderInsert(map, to_lowercase(name), value), Tail(hs))
            ELSE HeaderLoop(map, Tail(hs))

\* the error branch answering with the error's code
ErrorBody_code(m) == m.code

\* line 386
ErrorBody(m) == m.message

\* lines 342-388: the response built from the message received on the oneshot
BuildResponse(m) ==
    IF m.type = "http_response"
    THEN Response(ResponseStatus(m), HeaderLoop(<<>>, m.headers), m.body)
    ELSE IF m.type = "error"
    THEN Response(ResponseStatus(m), <<>>, ErrorBody(m))
    ELSE Response(ResponseStatus(m), <<>>, "Unexpected response")

\* line 247: state.clients.is_empty(); lines 250-251 clone the watch receiver,
\* whose version is the one the channel was created with
Check(r) ==
    /\ rpc[r] = "start"
    /\ CanReadAll
    /\ rpc' = [rpc EXCEPT ![r] = IF IsEmpty THEN "wait_check" ELSE "select"]
    /\ UNCHANGED <<connVars, clients, shardOf, outside, watchVer, pending, chosen,
                   seen, slot, status, outcome, reply, hist, pings>>

\* line 253: the emptiness check inside the wait loop
WaitCheck(r) ==
    /\ rpc[r] = "wait_check"
    /\ CanReadAll
    /\ rpc' = [rpc EXCEPT ![r] = IF IsEmpty THEN "wait_changed" ELSE "select"]
    /\ UNCHANGED <<connVars, clients, shardOf, outside, watchVer, pending, chosen,
                   seen, slot, status, outcome, reply, hist, pings>>

\* line 256: rx.changed() returns once the channel's version differs from the
\* one this receiver has seen
WaitChanged(r) ==
    /\ rpc[r] = "wait_changed"
    /\ seen[r] # watchVer
    /\ seen' = [seen EXCEPT ![r] = watchVer]
    /\ rpc' = [rpc EXCEPT ![r] = "wait_check"]
    /\ UNCHANGED <<connVars, clients, shardOf, outside, watchVer, pending, chosen,
                   slot, status, outcome, reply, hist, pings>>

\* the wait loop without tokio::time::timeout around it
WaitTimeout_never(r) ==
    /\ rpc[r] = "wait_changed"
    /\ FALSE
    /\ UNCHANGED vars

\* lines 251, 265-272: client_timeout elapses while rx.changed() is pending
WaitTimeout(r) ==
    /\ rpc[r] = "wait_changed"
    /\ seen[r] = watchVer
    /\ Return(r, Response(503, <<>>, "No connected clients (timeout waiting for client)"),
              "wait_timeout")
    /\ UNCHANGED <<connVars, clients, shardOf, outside, watchVer, pending, chosen,
                   seen, slot, hist, pings>>

\* state.clients.iter().next(), lines 264 and 275: the iterator takes the read
\* lock of each shard in turn and yields the first entry it finds; which entry
\* of a shard comes first is left to the hash map
Selectable(k) ==
    /\ clients[k] # NoEntry
    /\ \A s \in Shards : s <= shardOf[k] => CanRead(s)
    /\ \A j \in ClientIds : clients[j] # NoEntry => shardOf[j] >= shardOf[k]

Select(r) ==
    /\ rpc[r] = "select"
    /\ \E k \in ClientIds :
        /\ Selectable(k)
        /\ chosen' = [chosen EXCEPT ![r] = k]
    /\ rpc' = [rpc EXCEPT ![r] = "insert"]
    /\ UNCHANGED <<connVars, clients, shardOf, outside, watchVer, pending, seen, slot,
                   status, outcome, reply, hist, pings>>

\* lines 278-283: the iterator yields nothing
SelectNone(r) ==
    /\ rpc[r] = "select"
    /\ CanReadAll
    /\ IsEmpty
    /\ Return(r, Response(503, <<>>, "No connected clients"), "no_client")
    /\ UNCHANGED <<connVars, clients, shardOf, outside, watchVer, pending, chosen,
                   seen, slot, hist, pings>>

\* lines 285-321: read the request, draw the request_id, store the sender of
\* the oneshot channel in pending_requests
Insert(r) ==
    /\ rpc[r] = "insert"
    /\ pending' = pending \cup {r}
    /\ hist' = [hist EXCEPT ![r].ins = @ + 1]
    /\ rpc' = [rpc EXCEPT ![r] = "send"]
    /\ UNCHANGED <<connVars, clients, shardOf, outside, watchVer, chosen, seen, slot,
                   status, outcome, reply, pings>>

Target(r) == clients[chosen[r]].sender

\* line 334, Ok: the channel has room and takes the http_request
SendOk(r) ==
    /\ rpc[r] = "send"
    /\ ~Closed(Target(r))
    /\ ~Full(Target(r))
    /\ queue' = [queue EXCEPT ![Target(r)] = Append(@, HttpRequest(r))]
    /\ hist' = [hist EXCEPT ![r].enq = Append(@, Target(r))]
    /\ rpc' = [rpc EXCEPT ![r] = "await"]
    /\ UNCHANGED <<cpc, cid, first, wire, wtask, pingT, clients,
                   shardOf, outside, watchVer, pending, chosen, seen, slot, status,
                   outcome, reply, pings, regs>>

\* the send-failure branch without pending_requests.remove
SendFailRemove_keep(r) == pending

\* lines 334-337, Err: the channel is closed
SendFailRemove(r) == pending \ {r}

SendFail(r) ==
    /\ rpc[r] = "send"
    /\ Closed(Target(r))
    /\ pending' = SendFailRemove(r)
    /\ hist' = [hist EXCEPT ![r].rem = IF r \in pending /\ r \notin pending'
                                         THEN @ + 1 ELSE @]
    /\ Return(r, Response(502, <<>>, "Failed to forward request"), "send_failed")
    /\ UNCHANGED <<connVars, clients, shardOf, outside, watchVer, chosen, seen, slot,
                   pings>>

\* line 334 as one step of the handler
SendStep(r) == SendOk(r) \/ SendFail(r)

\* lines 341-388: a message arrives on the oneshot channel
AwaitResponse(r) ==
    /\ rpc[r] = "await"
    /\ slot[r] # NoSlot
    /\ Return(r, BuildResponse(slot[r].msg),
              IF slot[r].msg.type = "http_response" THEN "response"
              ELSE IF slot[r].msg.type = "error" THEN "error" ELSE "unexpected")
    /\ UNCHANGED <<connVars, clients, shardOf, outside, watchVer, pending, chosen,
                   seen, slot, hist, pings>>

\* lines 341, 393: request_timeout elapses with nothing on the oneshot
TimeoutFire(r) ==
    /\ rpc[r] = "await"
    /\ slot[r] = NoSlot
    /\ rpc' = [rpc EXCEPT ![r] = "timeout"]
    /\ UNCHANGED <<connVars, clients, shardOf, outside, watchVer, pending, chosen,
                   seen, slot, status, outcome, reply, hist, pings>>

\* the timeout branch without pending_requests.remove
TimeoutRemove_keep(r) == pending

\* lines 394-395: remove the slot, then return 504
TimeoutRemove(r) == pending \ {r}

TimeoutReturn(r) ==
    /\ rpc[r] = "timeout"
    /\ pending' = TimeoutRemove(r)
    /\ hist' = [hist EXCEPT ![r].rem = IF r \in pending /\ r \notin pending'
                                         THEN @ + 1 ELSE @]
    /\ Return(r, Response(504, <<>>, "Request timeout"), "timeout")
    /\ UNCHANGED <<connVars, clients, shardOf, outside, watchVer, chosen, seen, slot,
                   pings>>

\* =================================================== the tunnel client
\* ------------------------------------------------------------- bounds
MaxInbound == 2     \* inbound messages the client handles in one run
MaxBeats == 1       \* pings the heartbeat task sends in one run

\* http_request as the client reads it (tunnel.rs:22-31)
TunnelRequest(id, method, path) ==
    [type |-> "http_request", request_id |-> id, method |-> method, path |-> path]

Methods == {"GET", "POST", "PUT", "DELETE", "PATCH", "TRACE"}
Paths ==
    {"/api/alexa/smart_home", "/api/google_assistant", "/auth/authorize",
     "/auth/token", "/api/states"}
AllFeatures == [assistant_alexa : BOOLEAN, assistant_google : BOOLEAN]

\* TunnelMessage::from_ws_message (tunnel.rs:64-78): the JSON of a text or of a
\* binary frame; NoMsg stands for Err
from_ws_message(f) ==
    IF f.kind \in {"text", "binary"} /\ f.json THEN f.msg ELSE NoMsg

\* frames the server side of the socket can deliver to a connected client
ClientMessages ==
    {TunnelRequest(1, m, p) : m \in Methods, p \in Paths}
    \cup {Pong(7), Ping(7)}
ClientFrames ==
    {Text(m) : m \in ClientMessages}
    \cup {Binary(TunnelRequest(1, "POST", "/auth/token")), Binary(Pong(7)), Garbage}
\* frames that can answer the client's auth message
ClientAuthFrames ==
    {Text(AuthResponse(TRUE)), Binary(AuthResponse(TRUE)),
     Text(AuthResponse(FALSE)), Text(Pong(7)), Garbage, CloseFrame, ErrFrame,
     EndOfStream}
\* what Home Assistant answers
HaStatuses == {200, 404}

\* ---------------------------------------------------- client/src/proxy.rs
\* the allowlist without the check of the method
validate_request_anymethod(f, method, path) ==
    \/ f.assistant_alexa /\ path = "/api/alexa/smart_home"
    \/ f.assistant_google /\ path = "/api/google_assistant"
    \/ (f.assistant_google \/ f.assistant_alexa) /\ path = "/auth/authorize"
    \/ (f.assistant_google \/ f.assistant_alexa) /\ path = "/auth/token"

\* lines 8-17
validate_request(f, method, path) ==
    \/ f.assistant_alexa /\ method = "POST" /\ path = "/api/alexa/smart_home"
    \/ f.assistant_google /\ method = "POST" /\ path = "/api/google_assistant"
    \/ /\ f.assistant_google \/ f.assistant_alexa
       /\ method = "GET"
       /\ path = "/auth/authorize"
    \/ /\ f.assistant_google \/ f.assistant_alexa
       /\ method = "POST"
       /\ path = "/auth/token"

\* lines 36-48: the methods proxy_request builds a request for
SupportedMethod(method) == method \in {"GET", "POST", "PUT", "DELETE", "PATCH"}

\* lines 104-116: the redirect to config.ha_external_url
Redirect(m) ==
    HttpResponse(m.request_id, 307, <<(<<"Location", <<"ha_external_url", m.path>> >>)>>, "")

\* the handler without the redirect branch
IsAuthorize_never(m) == FALSE

\* line 103
IsAuthorize(m) == m.method = "GET" /\ m.path = "/auth/authorize"

\* a handler that answers an unexpected message under a request_id
OtherReply_withid(m) == ErrorMsg(1, "invalid_message", "Unexpected message type")

\* lines 183-190: the reply to a message that is neither http_request nor pong
OtherReply(m) == ErrorMsg(NoReq, "invalid_message", "Unexpected message type")

\* the value handle_request returns is recorded with the message it is for
Returned(m, res) ==
    /\ kres' = res
    /\ klog' = Append(klog, <<m, res>>)

\* lines 158-192 and 82-129: handle_request up to its first await. A rejected
\* request and GET /auth/authorize are answered at once; any other request
\* goes to proxy_request, which fails on an unsupported method (36-48) and
\* else sends the request to Home Assistant (line 63)
Handle ==
    /\ kpc = "handle"
    /\ IF kmsg.type = "http_request"
       THEN IF ~validate_request(features, kmsg.method, kmsg.path)
            THEN /\ Returned(kmsg, HttpResponse(kmsg.request_id, 400, <<>>,
                                                "Feature not enabled!"))
                 /\ kpc' = "send"
                 /\ UNCHANGED kha
            ELSE IF IsAuthorize(kmsg)
            THEN /\ Returned(kmsg, Redirect(kmsg))
                 /\ kpc' = "send"
                 /\ UNCHANGED kha
            ELSE IF ~SupportedMethod(kmsg.method)
            THEN /\ Returned(kmsg, ErrorMsg(kmsg.request_id, "upstream_error",
                                            "Invalid request: Unsupported method"))
                 /\ kpc' = "send"
                 /\ UNCHANGED kha
            ELSE /\ kha' = Append(kha, kmsg)
                 /\ kpc' = "ha_wait"
                 /\ UNCHANGED <<kres, klog>>
       ELSE IF kmsg.type = "pong"
       THEN /\ kpc' = "select"
            /\ UNCHANGED <<kres, klog, kha>>
       ELSE /\ Returned(kmsg, OtherReply(kmsg))
            /\ kpc' = "send"
            /\ UNCHANGED kha
    /\ UNCHANGED <<features, shutdown, kmsg, kout, kwtask, beats, hbeats, serverVars,
                   ipVars, cfgVars>>

\* lines 63-78, 131-144: Home Assistant answers
HaOk ==
    /\ kpc = "ha_wait"
    /\ \E st \in HaStatuses :
        Returned(kmsg, HttpResponse(kmsg.request_id, st, <<>>, "ha"))
    /\ kpc' = "send"
    /\ UNCHANGED <<features, shutdown, kmsg, kha, kout, kwtask, beats, hbeats,
                   serverVars, ipVars, cfgVars>>

\* lines 63, 145-153: the request fails or runs into config.ha_timeout
HaFail ==
    /\ kpc = "ha_wait"
    /\ Returned(kmsg, ErrorMsg(kmsg.request_id, "upstream_error", "Request error"))
    /\ kpc' = "send"
    /\ UNCHANGED <<features, shutdown, kmsg, kha, kout, kwtask, beats, hbeats,
                   serverVars, ipVars, cfgVars>>

\* ------------------------------------------------- client/src/main.rs
\* a main loop that leaves the heartbeat task running
HeartbeatAbort_never(n) == n

\* heartbeat_handle.abort(), lines 91 and 114: of the n tasks the one of the
\* current connection is cancelled
HeartbeatAbort(n) == IF n > 0 THEN n - 1 ELSE 0

\* lines 55-59: the signal handler sets the watch channel
Signal ==
    /\ ~shutdown
    /\ shutdown' = TRUE
    /\ UNCHANGED <<features, kpc, kmsg, kres, kha, klog, kout, kwtask, beats,
                   hbeats, serverVars, ipVars, cfgVars>>

\* lines 61-67: the check at the top of 'main_loop, then connect() is called
Top ==
    /\ kpc = "top"
    /\ kpc' = IF shutdown THEN "exit" ELSE "dial"
    /\ UNCHANGED <<features, shutdown, kmsg, kres, kha, klog, kout, kwtask,
                   beats, hbeats, serverVars, ipVars, cfgVars>>

\* tunnel_client.rs:17-36: the socket is up and the auth message is sent
DialOk ==
    /\ kpc = "dial"
    /\ kpc' = "auth_wait"
    /\ UNCHANGED <<features, shutdown, kmsg, kres, kha, klog, kout, kwtask,
                   beats, hbeats, serverVars, ipVars, cfgVars>>

\* tunnel_client.rs:17-19, 33-36 and main.rs:117-119: connect() fails
DialFail ==
    /\ kpc = "dial"
    /\ kpc' = "backoff"
    /\ UNCHANGED <<features, shutdown, kmsg, kres, kha, klog, kout, kwtask,
                   beats, hbeats, serverVars, ipVars, cfgVars>>

\* connect() taking every auth_response for a success
ConnectResult_lenient(f) ==
    IF from_ws_message(f).type = "auth_response" THEN "ok" ELSE "auth_failed"

\* tunnel_client.rs:39-58: what connect() makes of the frame that answers the
\* auth message: "ok", or the ProxyError it returns
ConnectResult(f) ==
    IF f.kind \in {"end", "err"} THEN "connection"
    ELSE IF from_ws_message(f) = NoMsg THEN "tunnel"
    ELSE IF from_ws_message(f).type = "auth_response"
    THEN IF from_ws_message(f).success THEN "ok" ELSE "auth_failed"
    ELSE "auth_failed"

\* tunnel_client.rs:39-112 with the frame f answering the auth message. With
\* auth_response{success:true} the channels and tasks are created and main
\* enters the request loop; with anything else connect() fails
AuthReplyWith(f) ==
    /\ kpc = "auth_wait"
    /\ IF ConnectResult(f) = "ok"
       THEN /\ kpc' = "select"
            /\ kout' = <<>>
            /\ kwtask' = "run"
            /\ hbeats' = hbeats + 1
       ELSE /\ kpc' = "backoff"
            /\ UNCHANGED <<kout, kwtask, hbeats>>
    /\ UNCHANGED <<features, shutdown, kmsg, kres, kha, klog, beats, serverVars,
                   ipVars, cfgVars>>

AuthReply == \E f \in ClientAuthFrames : AuthReplyWith(f)

\* main.rs:88-93: select! takes the shutdown branch
ShutdownSelect ==
    /\ kpc = "select"
    /\ shutdown
    /\ kpc' = "exit"
    /\ hbeats' = HeartbeatAbort(hbeats)
    /\ UNCHANGED <<features, shutdown, kmsg, kres, kha, klog, kout, kwtask,
                   beats, serverVars, ipVars, cfgVars>>

\* tunnel_client.rs:84-96 and main.rs:94-97: the reader task parses a frame
\* and main receives the message
\* a loop that polls rx.recv() while a call to Home Assistant is pending
Receiving_concurrent(pc) == pc \in {"select", "ha_wait"}

\* main.rs:88-94: rx.recv() is polled only inside select!, which the loop
\* reaches again when the body of the previous message has run
Receiving(pc) == pc = "select"

ClientRecvFrom(Frames) ==
    /\ Receiving(kpc)
    /\ Len(klog) < MaxInbound
    /\ \E f \in Frames :
        /\ from_ws_message(f) # NoMsg
        /\ kmsg' = from_ws_message(f)
    /\ kpc' = "handle"
    /\ UNCHANGED <<features, shutdown, kres, kha, klog, kout, kwtask, beats,
                   hbeats, serverVars, ipVars, cfgVars>>

ClientRecv == ClientRecvFrom(ClientFrames)

\* tunnel_client.rs:98-100: a frame that does not parse is dropped
ClientRecvDropped ==
    /\ kpc = "select"
    /\ \E f \in ClientFrames : from_ws_message(f) = NoMsg
    /\ UNCHANGED vars

\* tunnel_client.rs:87-90, 103-106 and main.rs:106-115: the reader task ends
\* on a close frame, an error or the end of the stream, and rx.recv() is None
ClientLost ==
    /\ kpc = "select"
    /\ \E f \in {CloseFrame, ErrFrame, EndOfStream} : from_ws_message(f) = NoMsg
    /\ kpc' = "backoff"
    /\ kwtask' = "none"
    /\ kout' = <<>>
    /\ hbeats' = HeartbeatAbort(hbeats)
    /\ UNCHANGED <<features, shutdown, kmsg, kres, kha, klog, beats, serverVars,
                   ipVars, cfgVars>>

\* main.rs:99-100, Ok: the outbound channel takes the reply
ReplyOk ==
    /\ kpc = "send"
    /\ kwtask = "run"
    /\ Len(kout) < capacity.client
    /\ kout' = Append(kout, kres)
    /\ kpc' = "select"
    /\ UNCHANGED <<features, shutdown, kmsg, kres, kha, klog, kwtask, beats,
                   hbeats, serverVars, ipVars, cfgVars>>

\* main.rs:100-115, Err: the writer task has ended, the connection is given up
ReplyFail ==
    /\ kpc = "send"
    /\ kwtask = "ended"
    /\ kpc' = "backoff"
    /\ kwtask' = "none"
    /\ kout' = <<>>
    /\ hbeats' = HeartbeatAbort(hbeats)
    /\ UNCHANGED <<features, shutdown, kmsg, kres, kha, klog, beats, serverVars,
                   ipVars, cfgVars>>

\* main.rs:73-84: the heartbeat task puts a ping into the outbound channel
Beat ==
    /\ hbeats > 0
    /\ kwtask = "run"
    /\ beats < MaxBeats
    /\ Len(kout) < capacity.client
    /\ kout' = Append(kout, Ping(7))
    /\ beats' = beats + 1
    /\ UNCHANGED <<features, shutdown, kpc, kmsg, kres, kha, klog, kwtask,
                   hbeats, serverVars, ipVars, cfgVars>>

\* tunnel_client.rs:66-72: the writer task sends the next message
ClientWrite ==
    /\ kwtask = "run"
    /\ kout # <<>>
    /\ kout' = Recv(kout).rest
    /\ UNCHANGED <<features, shutdown, kpc, kmsg, kres, kha, klog, kwtask,
                   beats, hbeats, serverVars, ipVars, cfgVars>>

\* tunnel_client.rs:69-72: write.send fails and the writer task ends
ClientWriteFail ==
    /\ kwtask = "run"
    /\ kout # <<>>
    /\ kout' = <<>>
    /\ kwtask' = "ended"
    /\ UNCHANGED <<features, shutdown, kpc, kmsg, kres, kha, klog, beats, hbeats,
                   serverVars, ipVars, cfgVars>>

\* main.rs:128-132: the shutdown branch of the reconnect wait
ShutdownBackoff ==
    /\ kpc = "backoff"
    /\ shutdown
    /\ kpc' = "exit"
    /\ UNCHANGED <<features, shutdown, kmsg, kres, kha, klog, kout, kwtask,
                   beats, hbeats, serverVars, ipVars, cfgVars>>

\* main.rs:133: reconnect_interval has passed
SleepDone ==
    /\ kpc = "backoff"
    /\ kpc' = "top"
    /\ UNCHANGED <<features, shutdown, kmsg, kres, kha, klog, kout, kwtask,
                   beats, hbeats, serverVars, ipVars, cfgVars>>

\* ============================================ server/src/client_ip.rs
MaxCalls == 2       \* calls of extract_client_ip in one run

\* A header value is a sequence of tokens: addresses, numbers, names and the
\* separators the parsers look for. A string the function returns is the
\* sequence of its tokens.
Peers == {"10.0.0.1", "192.0.2.9"}
DigitsAndDots == {"203.0.113.5", "10.0.0.1", "4711", "2001"}
ProxyModes == {"none", "x-forwarded-for", "x-real-ip", "forwarded"}
ProxyConfigs ==
    [proxy_mode : ProxyModes, trusted_proxies : {{}, {"10.0.0.1"}}]
HeaderValuesIp ==
    {<<"203.0.113.5">>,
     <<"203.0.113.5", ",", " ", "10.0.0.1">>,
     <<" ", "203.0.113.5", " ">>,
     <<"203.0.113.5", "\t", ",", "10.0.0.1">>,
     <<>>,
     <<" ">>,
     <<",", "10.0.0.1">>,
     <<"for=", "203.0.113.5">>,
     <<"by=", "10.0.0.1", ";", " ", "FOR=", "203.0.113.5">>,
     <<"for=", "\"", "[", "2001", ":", "db8", "]", ":", "4711", "\"">>,
     <<"for=", "203.0.113.5", ":", "4711">>,
     <<"for=", "unknown", ":", "4711">>,
     <<"for=", "2001", ":", "4711", ":", "4711">>,
     <<"for=">>,
     <<"for=", "\"", "\"">>,
     <<"for=", ":", "4711">>,
     <<"proto=", "http">>,
     <<"for=", "203.0.113.5", ",", "for=", "10.0.0.1">>}
NoHeader == [name |-> "-", value |-> <<>>]
\* the request headers: none, or one of the headers a proxy sets
RequestHeaders ==
    {NoHeader}
    \cup [name : {"x-forwarded-for", "x-real-ip", "forwarded"},
          value : HeaderValuesIp]

None == <<"None">>
Some(v) == <<"Some", v>>

\* value.split(sep).next(): what precedes the first separator
RECURSIVE SplitFirst(_, _)
SplitFirst(v, sep) ==
    IF v = <<>> \/ Head(v) = sep THEN <<>>
    ELSE <<Head(v)>> \o SplitFirst(Tail(v), sep)

\* value.split(sep): all the pieces
RECURSIVE Split(_, _)
Split(v, sep) ==
    LET h == SplitFirst(v, sep) IN
    IF Len(h) = Len(v) THEN <<h>>
    ELSE <<h>> \o Split(SubSeq(v, Len(h) + 2, Len(v)), sep)

\* char::is_whitespace, of the characters a header value can hold
Whitespace == {" ", "\t"}

\* str::trim_matches for the characters of C, and str::trim() for whitespace
RECURSIVE TrimStart(_, _)
TrimStart(v, C) ==
    IF v # <<>> /\ Head(v) \in C THEN TrimStart(Tail(v), C) ELSE v
RECURSIVE TrimEnd(_, _)
TrimEnd(v, C) ==
    IF v # <<>> /\ v[Len(v)] \in C THEN TrimEnd(SubSeq(v, 1, Len(v) - 1), C) ELSE v
TrimMatches(v, C) == TrimEnd(TrimStart(v, C), C)
Trim(v) == TrimMatches(v, Whitespace)

\* the first token taken as it stands
parse_x_forwarded_for_untrimmed(value) ==
    LET ip == SplitFirst(value, ",") IN
    IF ip = <<>> THEN None ELSE Some(ip)

\* lines 74-80
parse_x_forwarded_for(value) ==
    LET ip == Trim(SplitFirst(value, ",")) IN
    IF ip = <<>> THEN None ELSE Some(ip)

\* the port looked for at the first colon instead of the last
clean_forwarded_ip_first(raw) ==
    LET ip == TrimMatches(Trim(raw), {"\""})
        closing == {i \in 1..Len(ip) : ip[i] = "]"}
        colons == {i \in 1..Len(ip) : ip[i] = ":"}
    IN  IF ip # <<>> /\ Head(ip) = "[" /\ closing # {}
        THEN SubSeq(ip, 2, (CHOOSE i \in closing : \A j \in closing : i <= j) - 1)
        ELSE IF colons # {}
        THEN LET first_colon == CHOOSE i \in colons : \A j \in colons : i <= j
                 before == SubSeq(ip, 1, first_colon - 1)
             IN IF \A i \in 1..Len(before) : before[i] \in DigitsAndDots \cup {"."}
                THEN before ELSE ip
        ELSE ip

\* lines 101-124
clean_forwarded_ip(raw) ==
    LET ip == TrimMatches(Trim(raw), {"\""})
        closing == {i \in 1..Len(ip) : ip[i] = "]"}
        colons == {i \in 1..Len(ip) : ip[i] = ":"}
    IN  IF ip # <<>> /\ Head(ip) = "[" /\ closing # {}
        THEN SubSeq(ip, 2, (CHOOSE i \in closing : \A j \in closing : i <= j) - 1)
        ELSE IF colons # {}
        THEN LET last == CHOOSE i \in colons : \A j \in colons : j <= i
                 before == SubSeq(ip, 1, last - 1)
             IN IF \A i \in 1..Len(before) : before[i] \in DigitsAndDots \cup {"."}
                THEN before ELSE ip
        ELSE ip

\* directive.to_lowercase().starts_with("for="), line 91
StartsWithFor(directive) ==
    directive # <<>> /\ Head(directive) \in {"for=", "FOR=", "For="}

\* lines 84-98
RECURSIVE FirstFor(_)
FirstFor(directives) ==
    IF directives = <<>> THEN None
    ELSE LET directive == Trim(Head(directives)) IN
         IF StartsWithFor(directive)
         THEN Some(clean_forwarded_ip(Tail(directive)))
         ELSE FirstFor(Tail(directives))
parse_forwarded_header(value) ==
    FirstFor(Split(SplitFirst(value, ","), ";"))

\* lines 128-135
parse_simple_ip_header(value) ==
    IF Trim(value) = <<>> THEN None ELSE Some(Trim(value))

\* ProxyMode::header_name (config.rs:27-37)
header_name(mode) == IF mode = "none" THEN None ELSE Some(mode)

\* the check of line 26 left out
Untrusted_never(trusted, direct_ip) == FALSE

\* line 26
Untrusted(trusted, direct_ip) == trusted # {} /\ direct_ip \notin trusted

\* lines 44-48
ParseHeader(mode, value) ==
    IF mode = "forwarded" THEN parse_forwarded_header(value)
    ELSE IF mode = "x-forwarded-for" THEN parse_x_forwarded_for(value)
    ELSE parse_simple_ip_header(value)

\* lines 11-69; direct_ip.to_string() is the one token of the address
extract_client_ip(header, direct_ip, mode, trusted) ==
    IF header_name(mode) = None THEN <<direct_ip>>
    ELSE IF Untrusted(trusted, direct_ip) THEN <<direct_ip>>
    ELSE IF header.name # header_name(mode)[2] THEN <<direct_ip>>
    ELSE LET extracted_ip == ParseHeader(mode, header.value) IN
         IF extracted_ip = None THEN <<direct_ip>> ELSE extracted_ip[2]

\* proxy.rs:234-239: handle_api_request computes source_ip for a request
ExtractIp ==
    /\ Len(ipcalls) < MaxCalls
    /\ \E peer \in Peers, header \in RequestHeaders :
        ipcalls' = Append(ipcalls,
            [peer |-> peer, header |-> header,
             out |-> extract_client_ip(header, peer, ipcfg.proxy_mode,
                                       ipcfg.trusted_proxies)])
    /\ UNCHANGED <<ipcfg, serverVars, clientVars, cfgVars>>

\* ---------------------------------------------------- specifications
ConnStep(c, Frames, Nows, Sts, Hdrs, Errs) ==
    \/ AuthRecv(c, Frames, Nows)
    \/ AuthTimeout(c)
    \/ Register(c, Nows)
    \/ Notify(c)
    \/ RecvResponse(c, Sts, Hdrs)
    \/ RecvError(c, Errs)
    \/ RecvPing(c)
    \/ RecvDropped(c)
    \/ RecvEnd(c)
    \/ PingLock(c, Nows)
    \/ PingSend(c)
    \/ Cleanup(c)
    \/ WriterSend(c)
    \/ WriterFail(c)

ReqStep(r) ==
    \/ Check(r)
    \/ WaitCheck(r)
    \/ WaitChanged(r)
    \/ WaitTimeout(r)
    \/ Select(r)
    \/ SelectNone(r)
    \/ Insert(r)
    \/ SendOk(r)
    \/ SendFail(r)
    \/ AwaitResponse(r)
    \/ TimeoutFire(r)
    \/ TimeoutReturn(r)

\* the steps the server takes by itself: its own code and its timers
ConnInternal(c) ==
    \/ AuthTimeout(c)
    \/ Register(c, MuxNows)
    \/ Notify(c)
    \/ PingLock(c, MuxNows)
    \/ PingSend(c)
    \/ Cleanup(c)

\* Sessions: every connection, one public request.
Next ==
    \/ \E c \in Conns : ConnStep(c, MuxFirstFrames, MuxNows, MuxStatuses, MuxHeaders, MuxErrors)
    \/ \E c \in Conns : WriterEnd(c)
    \/ \E r \in {1} : ReqStep(r)

Spec == Init /\ [][Next]_vars

\* Queue: one connection, every public request.
NextQueue ==
    \/ \E c \in {1} : ConnStep(c, MuxFirstFrames, MuxNows, MuxStatuses, MuxHeaders, MuxErrors)
    \/ \E r \in Reqs : ReqStep(r)

SpecQueue == Init /\ [][NextQueue]_vars

\* a socket whose read half has ended does not stall a write for ever: the
\* write completes or fails
SocketGone(c) == cpc[c] \in {"cleanup", "done"} /\ (WriterSend(c) \/ WriterFail(c))

\* The tokio runtime runs every task that can take a step and fires every
\* timer. Of a connected client nothing is assumed: neither the frames it
\* sends nor that it reads its socket.
FairQueue ==
    /\ WF_vars(ConnInternal(1) \/ \E r \in Reqs : ReqStep(r))
    /\ WF_vars(SocketGone(1))

FairSpecQueue == SpecQueue /\ FairQueue

\* the same for the specification of the sessions
FairSessions ==
    /\ WF_vars((\E c \in Conns : ConnInternal(c)) \/ \E r \in {1} : ReqStep(r))
    /\ \A c \in Conns : WF_vars(SocketGone(c))

FairSpec == Spec /\ FairSessions

\* Handshake: one connection with every kind of first frame, one request.
NextAuth ==
    \/ \E c \in {1} : ConnStep(c, AuthFirstFrames, AuthNows, MuxStatuses, MuxHeaders, MuxErrors)
    \/ \E r \in {1} : ReqStep(r)

SpecAuth == Init /\ [][NextAuth]_vars

\* Client: the tunnel client alone, with every setting of the features; the
\* server and Home Assistant are its environment.
NextClient ==
    \/ Signal
    \/ Top
    \/ DialOk
    \/ DialFail
    \/ AuthReply
    \/ ShutdownSelect
    \/ ClientRecv
    \/ ClientRecvDropped
    \/ ClientLost
    \/ Handle
    \/ HaOk
    \/ HaFail
    \/ ReplyOk
    \/ ReplyFail
    \/ Beat
    \/ ClientWrite
    \/ ClientWriteFail
    \/ ShutdownBackoff
    \/ SleepDone

InitClientSpec ==
    /\ InitServer
    /\ InitClient(AllFeatures)
    /\ InitIp({DefaultProxy})
    /\ InitQueues({DefaultCapacity})

SpecClient == InitClientSpec /\ [][NextClient]_vars

\* Source address: the public requests of a server with any proxy settings.
NextIp == ExtractIp

InitIpSpec ==
    /\ InitServer
    /\ InitClient({DefaultFeatures})
    /\ InitIp(ProxyConfigs)
    /\ InitQueues({DefaultCapacity})

SpecIp == InitIpSpec /\ [][NextIp]_vars

\* The runtime runs main whenever it can take a step; reqwest ends a request
\* after config.ha_timeout, the operating system ends a connection attempt,
\* sleep() elapses, and select! takes a branch that is ready again and again.
\* Of the server nothing is assumed: neither that it answers the auth message
\* nor that it reads what the writer task sends.
FairClient ==
    /\ WF_vars(Top)
    /\ WF_vars(DialOk \/ DialFail)
    /\ WF_vars(Handle)
    /\ WF_vars(HaOk \/ HaFail)
    /\ WF_vars(ReplyOk \/ ReplyFail)
    /\ WF_vars(ShutdownBackoff \/ SleepDone)
    /\ SF_vars(ShutdownSelect)

FairSpecClient == SpecClient /\ FairClient

\* status fields, codes and messages of the reply specification
ReplyStatuses == {99, 100, 200, 307, 400, 502, 503, 504, 999, 1000}
ReplyErrors ==
    {[code |-> "upstream_error", message |-> "connection refused"],
     [code |-> "invalid_request", message |-> "Unsupported method: TRACE"]}

\* Reply: one connection answering one request with every kind of reply.
NextStatus ==
    \/ \E c \in {1} :
        ConnStep(c, MuxFirstFrames, MuxNows, ReplyStatuses, MuxHeaders, ReplyErrors)
    \/ \E r \in {1} : ReqStep(r)

SpecStatus == Init /\ [][NextStatus]_vars

\* header lists of the header specification: up to MaxHeaders pairs
MaxHeaders == 2
ReplyHeaders ==
    UNION {[1..n -> HeaderPairs] : n \in 0..MaxHeaders}

\* Headers: one connection answering one request with every header list.
NextHeaders ==
    \/ \E c \in {1} :
        ConnStep(c, MuxFirstFrames, MuxNows, MuxStatuses, ReplyHeaders, MuxErrors)
    \/ \E r \in {1} : ReqStep(r)

SpecHeaders == Init /\ [][NextHeaders]_vars

\* capacity of the outbound channel under observation in the order
\* specification
FifoCap == 2

\* Order: the server with one connection and every public request, or the
\* client, each with an outbound channel that holds up to FifoCap messages.
NextFifo ==
    \/ capacity.client = 0 /\ NextQueue
    \/ capacity.server = 0 /\ NextClient

InitFifoSpec ==
    /\ InitServer
    /\ InitClient({DefaultFeatures})
    /\ InitIp({DefaultProxy})
    /\ InitQueues({[server |-> FifoCap, client |-> 0],
                   [server |-> 0, client |-> FifoCap]})

SpecFifo == InitFifoSpec /\ [][NextFifo]_vars

\* frames of the specification of unexpected messages: every variant of
\* TunnelMessage, and of http_request one that is rejected, the redirect and
\* one that goes to Home Assistant
VariantFrames ==
    {Text(Pong(7)), Text(Ping(7)), Text(AuthResponse(TRUE)),
     Text(AuthMsg("a", ServerNow, generate_auth_signature("a", ServerNow, Secret))),
     Text(HttpResponse(1, 200, <<>>, "")),
     Text(ErrorMsg(1, "upstream_error", "e")),
     Text(ErrorMsg(NoReq, "invalid_message", "Unexpected message type")),
     Binary(Ping(7)),
     Text(TunnelRequest(1, "POST", "/api/states")),
     Text(TunnelRequest(1, "GET", "/auth/authorize")),
     Text(TunnelRequest(1, "POST", "/auth/token"))}

NextClientVariants ==
    \/ Signal
    \/ Top
    \/ DialOk
    \/ DialFail
    \/ AuthReply
    \/ ShutdownSelect
    \/ ClientRecvFrom(VariantFrames)
    \/ ClientRecvDropped
    \/ ClientLost
    \/ Handle
    \/ HaOk
    \/ HaFail
    \/ ReplyOk
    \/ ReplyFail
    \/ Beat
    \/ ClientWrite
    \/ ClientWriteFail
    \/ ShutdownBackoff
    \/ SleepDone

\* Unexpected messages: the client receiving every variant, or the server
\* with one connection and every public request.
NextVariants ==
    \/ capacity.client = 0 /\ NextQueue
    \/ capacity.server = 0 /\ NextClientVariants

InitVariantsSpec ==
    /\ InitServer
    /\ InitClient({DefaultFeatures})
    /\ InitIp({DefaultProxy})
    /\ InitQueues({[server |-> QueueCap, client |-> 0],
                   [server |-> 0, client |-> ClientQueueCap]})

SpecVariants == InitVariantsSpec /\ [][NextVariants]_vars

\* ------------------------------------------------------------ claims
InWire(c, m) == \E i \in 1..Len(wire[c]) : wire[c][i] = m
InQueue(c, m) == \E i \in 1..Len(queue[c]) : queue[c][i] = m
InIndex(c) == \E k \in ClientIds : clients[k].sender = c
\* the connection has inserted its session and has not run lines 186-190
Registered(c) == cpc[c] \in {"notify", "read", "ping", "ping_send", "cleanup"}

\* C1: every request_id inserted into pending_requests is eventually removed,
\* whatever the chosen client does afterwards.
C1_EveryPendingRemoved ==
    \A r \in Reqs : (r \in pending) ~> (r \notin pending)

\* C2: the session index holds an entry for a connection iff the connection
\* has registered and its reader loop has not yet run its cleanup.
C2_IndexIffLive ==
    \A c \in Conns : InIndex(c) <=> Registered(c)

\* C3: a request answered with a non-5xx status was enqueued exactly once, to
\* one session, and its one reply was received on that same session.
C3_ReplyFromDispatchedSession ==
    \A r \in Reqs :
        (rpc[r] = "done" /\ status[r] < 500) =>
            /\ Len(hist[r].enq) = 1
            /\ hist[r].rem = 1
            /\ slot[r].from = hist[r].enq[1]

\* C4: auth_response{success:true}, a registered session and an enqueued
\* http_request exist for a connection only if its first frame was an auth
\* message signed HMAC(secret, "<client_id>:<timestamp>") with a timestamp
\* within 120 s of the server clock.
SignedFirstFrame(c) ==
    /\ first[c].frame.kind = "text"
    /\ first[c].frame.json
    /\ first[c].frame.msg.type = "auth"
    /\ first[c].frame.msg.signature =
          <<Secret, first[c].frame.msg.client_id, first[c].frame.msg.timestamp>>
Skew(c) ==
    IF first[c].now >= first[c].frame.msg.timestamp
    THEN first[c].now - first[c].frame.msg.timestamp
    ELSE first[c].frame.msg.timestamp - first[c].now
Served(c) ==
    \/ InWire(c, AuthResponse(TRUE))
    \/ InIndex(c)
    \/ cpc[c] \in {"register", "notify", "read", "ping", "ping_send", "cleanup"}
    \/ \E r \in Reqs : InQueue(c, HttpRequest(r)) \/ InWire(c, HttpRequest(r))
C4_SuccessOnlyAfterValidAuth ==
    \A c \in Conns : Served(c) => SignedFirstFrame(c) /\ Skew(c) <= 120
C4_Witness ==
    \E c \in Conns, r \in Reqs :
        /\ InWire(c, AuthResponse(TRUE))
        /\ InIndex(c)
        /\ InWire(c, HttpRequest(r))

\* C5: a correctly signed auth message is accepted when the timestamp is at
\* most 120 s older or newer than the server clock, and rejected beyond.
Accepted(c) == wire[c] # <<>> /\ wire[c][1] = AuthResponse(TRUE)
Rejected(c) == wire[c] = <<AuthResponse(FALSE)>> /\ cpc[c] = "done"
C5_WindowBothSides ==
    \A c \in Conns :
        SignedFirstFrame(c) =>
            /\ Skew(c) <= 120 => Accepted(c)
            /\ Skew(c) > 120 => Rejected(c)
C5_Witness ==
    \E c \in Conns :
        /\ SignedFirstFrame(c)
        /\ first[c].now = 0
        /\ first[c].frame.msg.timestamp = 120
        /\ Accepted(c)

\* C6: a connection whose first frame is no auth message, or that sends none
\* in time, is closed without a frame; one whose auth message fails
\* verification gets exactly one auth_response{success:false, "Invalid
\* signature"}; neither changes the session index, the pending-request table
\* or the connection-count notifier.
FirstIsAuth(c) == ParsesAs(first[c].frame, "auth")
C6_ClosedState ==
    \A c \in Conns :
        (cpc[c] = "done" /\ cid[c] = NoId) =>
            IF FirstIsAuth(c)
            THEN /\ wire[c] = <<[type |-> "auth_response", success |-> FALSE,
                                 message |-> "Invalid signature"]>>
                 /\ ~(SignedFirstFrame(c) /\ Skew(c) <= 120)
            ELSE wire[c] = <<>>
C6_ClosingStep ==
    \A c \in Conns :
        (cpc[c] = "auth_wait" /\ cpc'[c] = "done" /\ cid'[c] = NoId) =>
            /\ clients' = clients
            /\ pending' = pending
            /\ watchVer' = watchVer
            /\ queue' = queue
C6_RejectedLeavesNoTrace == []C6_ClosedState /\ [][C6_ClosingStep]_vars
C6_Witness ==
    \E c \in Conns :
        /\ cpc[c] = "done"
        /\ FirstIsAuth(c)
        /\ wire[c] = <<AuthResponse(FALSE)>>

\* C7: with the chosen client's outbound queue full, the ingress handler is
\* not blocked at the enqueue of its http_request: it can return at once.
C7_FullQueueDoesNotBlock ==
    \A r \in Reqs :
        (rpc[r] = "send" /\ Full(Target(r))) => ENABLED SendStep(r)

\* C8: when the enqueue fails because the queue is closed the handler removes
\* its pending slot and returns 502, and no http_request with that id was sent.
C8_SendFailure ==
    \A r \in Reqs :
        outcome[r] = "send_failed" =>
            /\ status[r] = 502
            /\ r \notin pending
            /\ hist[r].enq = <<>>
            /\ \A c \in Conns :
                ~InQueue(c, HttpRequest(r)) /\ ~InWire(c, HttpRequest(r))
C8_Witness ==
    \E r \in Reqs : outcome[r] = "send_failed" /\ hist[r].ins = 1

\* C9: on timeout the handler removes the pending slot and only then returns
\* 504; pending_requests never holds an entry whose caller has been answered.
C9_NoOrphanAfterTimeout ==
    \A r \in Reqs :
        /\ r \in pending => rpc[r] \in {"send", "await", "timeout"}
        /\ outcome[r] = "timeout" =>
            status[r] = 504 /\ r \notin pending /\ Len(hist[r].enq) = 1
C9_Witness ==
    \E r \in Reqs : outcome[r] = "timeout" /\ slot[r] = NoSlot

\* C10: a request that waits with the session index empty is answered 503
\* unless a client registers, and then no pending slot was installed and no
\* http_request enqueued.
Waiting(r) == rpc[r] \in {"wait_check", "wait_changed"}
C10_NoClientState ==
    \A r \in Reqs :
        outcome[r] = "wait_timeout" =>
            /\ status[r] = 503
            /\ hist[r] = NoHist
            /\ r \notin pending
            /\ \A c \in Conns :
                ~InQueue(c, HttpRequest(r)) /\ ~InWire(c, HttpRequest(r))
C10_NoClient503 ==
    /\ []C10_NoClientState
    /\ \A r \in Reqs :
        Waiting(r) ~> (outcome[r] = "wait_timeout" \/ ~IsEmpty)
C10_Witness ==
    \E r \in Reqs : outcome[r] = "wait_timeout" /\ status[r] = 503 /\ IsEmpty

\* C11: while the connection that registered last under a client_id is live
\* and an earlier connection registered under the same client_id, a handler
\* that looks for a client finds one, and a handler that selects that
\* client_id enqueues its http_request to the later connection - also after
\* the earlier connection has run its cleanup.
LaterLive(l) ==
    /\ cpc[l] \in {"notify", "read", "ping", "ping_send"}
    /\ \E e \in Conns :
        /\ e # l
        /\ cid[e] = cid[l]
        /\ \E i, j \in 1..Len(regs) : i < j /\ regs[i] = e /\ regs[j] = l
C11_Step ==
    \A r \in Reqs, l \in Conns :
        LaterLive(l) =>
            /\ (rpc[r] \in {"start", "wait_check"} /\ rpc'[r] # rpc[r])
                    => rpc'[r] = "select"
            /\ (rpc[r] = "select" /\ rpc'[r] # rpc[r])
                    => rpc'[r] = "insert"
            /\ (rpc[r] = "send" /\ rpc'[r] = "await" /\ chosen[r] = cid[l])
                    => hist'[r].enq = <<l>>
C11_LatestRegistrationSelected == [][C11_Step]_vars

\* C12: the status returned to the caller is determined by the message
\* delivered into its slot: an http_response yields its status field when that
\* is a status code (100..999) and 500 otherwise, an error yields 403 with the
\* error's message as body whatever its code, any other variant 500; the
\* server itself answers 502, 503 and 504 only on send failure, on no client
\* and on response timeout.
C12_StatusByBranch ==
    \A r \in Reqs :
        rpc[r] = "done" =>
            /\ outcome[r] = "response" =>
                /\ slot[r].msg.type = "http_response"
                /\ status[r] = IF slot[r].msg.status \in 100..999
                               THEN slot[r].msg.status ELSE 500
            /\ outcome[r] = "error" =>
                /\ slot[r].msg.type = "error"
                /\ status[r] = 403
                /\ reply[r].body = slot[r].msg.message
            /\ outcome[r] = "unexpected" => status[r] = 500
            /\ outcome[r] # "response" =>
                /\ status[r] = 502 <=> outcome[r] = "send_failed"
                /\ status[r] = 503 <=> outcome[r] \in {"no_client", "wait_timeout"}
                /\ status[r] = 504 <=> outcome[r] = "timeout"
C12_Witness ==
    \E r \in Reqs :
        /\ outcome[r] = "error"
        /\ slot[r].msg.code = "invalid_request"
        /\ status[r] = 403
        /\ reply[r].body = "Unsupported method: TRACE"
\* C12 as stated: every http_response yields its own status field, and 502,
\* 503 and 504 reach the caller only from the three failure branches.
C12_AsStated ==
    \A r \in Reqs :
        rpc[r] = "done" =>
            /\ outcome[r] = "response" => status[r] = slot[r].msg.status
            /\ status[r] = 502 => outcome[r] = "send_failed"
            /\ status[r] = 503 => outcome[r] \in {"no_client", "wait_timeout"}
            /\ status[r] = 504 => outcome[r] = "timeout"

\* C13: the response built from an http_response carries, in order, every
\* (name, value) pair of the message's header list whose name is not, in any
\* letter case, a hop-by-hop name - also pairs that share a name - and no
\* other header. Names are compared without regard to case.
Fold(name) ==
    CASE name = "Set-Cookie" -> "set-cookie"
      [] name = "Connection" -> "connection"
      [] name = "TE" -> "te"
      [] OTHER -> name
RECURSIVE Forwarded(_)
Forwarded(hs) ==
    IF hs = <<>> THEN <<>>
    ELSE IF Fold(Head(hs)[1]) \in
              {"content-length", "transfer-encoding", "connection",
               "keep-alive", "te", "trailers", "upgrade"}
    THEN Forwarded(Tail(hs))
    ELSE <<(<<Fold(Head(hs)[1]), Head(hs)[2]>>)>> \o Forwarded(Tail(hs))
Sendable(hs) ==
    \A i \in 1..Len(hs) : hs[i][1] # "bad name" /\ hs[i][2] # "line\nbreak"
C13_HeadersCopied ==
    \A r \in Reqs :
        (outcome[r] = "response" /\ Sendable(slot[r].msg.headers)) =>
            reply[r].headers = Forwarded(slot[r].msg.headers)

\* C14: validate_request accepts (features, method, path) iff alexa is on and
\* it is POST /api/alexa/smart_home, or google is on and it is POST
\* /api/google_assistant, or either is on and it is GET /auth/authorize or
\* POST /auth/token; every request it does not accept is answered 400
\* "Feature not enabled!" and every other request is not.
Allowed(f, method, path) ==
    LET alexa == f.assistant_alexa
        google == f.assistant_google
        either == alexa \/ google
    IN  \/ alexa /\ <<method, path>> = <<"POST", "/api/alexa/smart_home">>
        \/ google /\ <<method, path>> = <<"POST", "/api/google_assistant">>
        \/ either /\ <<method, path>> = <<"GET", "/auth/authorize">>
        \/ either /\ <<method, path>> = <<"POST", "/auth/token">>
NotEnabled(res) ==
    /\ res.type = "http_response"
    /\ res.status = 400
    /\ res.body = "Feature not enabled!"
IsRequest(m) == m.type = "http_request"
C14_Allowlist ==
    /\ \A i \in 1..Len(klog) :
        IsRequest(klog[i][1]) =>
            (NotEnabled(klog[i][2])
                <=> ~Allowed(features, klog[i][1].method, klog[i][1].path))
    /\ \A i \in 1..Len(kha) : Allowed(features, kha[i].method, kha[i].path)
C14_Witness ==
    /\ features.assistant_alexa
    /\ \E i \in 1..Len(klog) :
        /\ klog[i][1] = TunnelRequest(1, "GET", "/api/alexa/smart_home")
        /\ NotEnabled(klog[i][2])
    /\ \E i \in 1..Len(kha) : kha[i] = TunnelRequest(1, "POST", "/api/alexa/smart_home")

\* C15: for every http_request the handler returns exactly one reply with the
\* request's id: 400 "Feature not enabled!" when the allowlist rejects it,
\* else 307 with a Location header for GET /auth/authorize, else what Home
\* Assistant answered or error{upstream_error}; only in the last case was a
\* request issued to Home Assistant.
Upstream(res) ==
    \/ res.type = "http_response" /\ res.body = "ha"
    \/ res.type = "error" /\ res.code = "upstream_error"
C15_Replies ==
    /\ \A i \in 1..Len(klog) :
        LET m == klog[i][1]
            res == klog[i][2]
        IN IsRequest(m) =>
            /\ res.request_id = m.request_id
            /\ IF ~Allowed(features, m.method, m.path) THEN NotEnabled(res)
               ELSE IF <<m.method, m.path>> = <<"GET", "/auth/authorize">>
               THEN /\ res.type = "http_response"
                    /\ res.status = 307
                    /\ Len(res.headers) = 1
                    /\ res.headers[1][1] = "Location"
               ELSE Upstream(res)
    /\ \A i \in 1..Len(kha) :
        /\ Allowed(features, kha[i].method, kha[i].path)
        /\ <<kha[i].method, kha[i].path>> # <<"GET", "/auth/authorize">>
    /\ Len(kha) = Cardinality({i \in 1..Len(klog) :
                                IsRequest(klog[i][1]) /\ Upstream(klog[i][2])})
                  + (IF kpc = "ha_wait" THEN 1 ELSE 0)
C15_Step ==
    /\ (kpc \in {"handle", "ha_wait"} /\ kpc' # kpc /\ IsRequest(kmsg)) =>
            \/ kpc = "handle" /\ kpc' = "ha_wait" /\ klog' = klog
            \/ kpc' = "send" /\ klog' = Append(klog, <<kmsg, kres'>>)
    /\ klog' # klog => kpc \in {"handle", "ha_wait"} /\ kpc' = "send"
    /\ (kpc = "send" /\ kout' # kout /\ kpc' = "select") => kout' = Append(kout, kres)
C15_OneReplyInOrder == []C15_Replies /\ [][C15_Step]_vars
C15_Witness ==
    /\ Len(klog) = 2
    /\ klog[1][1] = TunnelRequest(1, "GET", "/auth/authorize")
    /\ klog[1][2].status = 307
    /\ klog[2][2].type = "error"
    /\ Len(kha) = 1

\* C16: an http_request whose method is none of GET, POST, PUT, DELETE, PATCH
\* is answered with an error whose code is "invalid_request".
C16_UnsupportedMethod ==
    \A i \in 1..Len(klog) :
        (IsRequest(klog[i][1])
            /\ klog[i][1].method \notin {"GET", "POST", "PUT", "DELETE", "PATCH"})
        => klog[i][2].type = "error" /\ klog[i][2].code = "invalid_request"

\* C17: once the shutdown signal is raised the client leaves its main loop,
\* whatever it was doing, and it starts no connection attempt after the signal.
C17_NoNewDial == shutdown => ~(kpc # "dial" /\ kpc' = "dial")
C17_ShutdownExits ==
    /\ shutdown ~> (kpc = "exit")
    /\ [][C17_NoNewDial]_vars

\* C18: with a proxy mode set, trusted_proxies non-empty and the peer not in
\* it, the source address is the peer's whatever the headers hold, so two
\* requests of one untrusted peer get the same address; from a trusted peer,
\* or with the list empty, a configured header that parses gives the address.
FromUntrusted(call) ==
    /\ ipcfg.proxy_mode # "none"
    /\ ipcfg.trusted_proxies # {}
    /\ call.peer \notin ipcfg.trusted_proxies
HeaderParses(call) ==
    /\ call.header.name = ipcfg.proxy_mode
    /\ ParseHeader(ipcfg.proxy_mode, call.header.value) # None
C18_UntrustedPeerIgnored ==
    /\ \A i \in 1..Len(ipcalls) :
        FromUntrusted(ipcalls[i]) => ipcalls[i].out = <<ipcalls[i].peer>>
    /\ \A i, j \in 1..Len(ipcalls) :
        (FromUntrusted(ipcalls[i]) /\ ipcalls[i].peer = ipcalls[j].peer)
            => ipcalls[i].out = ipcalls[j].out
    /\ \A i \in 1..Len(ipcalls) :
        (ipcfg.proxy_mode # "none" /\ ~FromUntrusted(ipcalls[i])
            /\ HeaderParses(ipcalls[i]))
        => ipcalls[i].out = ParseHeader(ipcfg.proxy_mode, ipcalls[i].header.value)[2]
C18_Witness ==
    /\ Len(ipcalls) = 2
    /\ ipcfg = [proxy_mode |-> "x-forwarded-for", trusted_proxies |-> {"10.0.0.1"}]
    /\ ipcalls[1].peer = "10.0.0.1"
    /\ ipcalls[2].peer = "192.0.2.9"
    /\ ipcalls[1].header = ipcalls[2].header
    /\ ipcalls[1].header.value = <<"203.0.113.5", ",", " ", "10.0.0.1">>
    /\ ipcalls[1].out = <<"203.0.113.5">>
    /\ ipcalls[2].out = <<"192.0.2.9">>

\* C19: a JSON TunnelMessage in a binary frame is handled like the same
\* message in a text frame: a connection whose first frame is a binary frame
\* holding a correctly signed auth message with a timestamp inside the window
\* is accepted.
BinaryAuth(c) ==
    /\ first[c].frame.kind = "binary"
    /\ first[c].frame.json
    /\ first[c].frame.msg.type = "auth"
    /\ first[c].frame.msg.signature =
          <<Secret, first[c].frame.msg.client_id, first[c].frame.msg.timestamp>>
    /\ Skew(c) <= 120
C19_BinaryAsText ==
    \A c \in Conns : BinaryAuth(c) => Accepted(c)

\* C20: operations on the session index do not wait for a handler that awaits
\* its response: with a handler awaiting and no other connection in the
\* index operation, a connection about to handle a ping, to register or to
\* remove its session can take that step.
C20_IndexOpsDoNotWait ==
    \A c \in Conns :
        ((\E r \in Reqs : rpc[r] = "await")
            /\ \A s \in Shards : WriteHolders(s) = {}) =>
            /\ cpc[c] = "ping" => ENABLED PingLock(c, MuxNows)
            /\ cpc[c] = "register" => ENABLED Register(c, MuxNows)
            /\ cpc[c] = "cleanup" => ENABLED Cleanup(c)

\* C21: a ping{t} received on a session whose queue is open ends with exactly
\* one pong{t} appended to the queue of that same session and with the
\* session's last_ping set - also when another connection registered or
\* removed an entry under the same client_id in the meantime.
PingDone(c) == cpc[c] \in {"ping", "ping_send"} /\ cpc'[c] = "read"
C21_Step ==
    \A c \in Conns :
        (PingDone(c) /\ ~Closed(c)) =>
            /\ queue'[c] = Append(queue[c], Pong(pingT[c]))
            /\ clients'[cid[c]].sender = c
            /\ clients'[cid[c]].last_ping = ServerNow
C21_PongToSameSession == [][C21_Step]_vars

\* C22: the outbound task of a session whose reader loop is running ends only
\* when its write to the socket fails or when the index no longer holds the
\* session's sender and the queue is drained; and a session whose entry a later
\* registration has overwritten is in that case: once its queue is empty its
\* outbound task can end, with the reader loop still running.
Overwritten(c) ==
    /\ cpc[c] \in {"read", "ping", "ping_send"}
    /\ clients[cid[c]] # NoEntry
    /\ clients[cid[c]].sender # c
ReaderRuns(c) == cpc[c] \in {"read", "ping", "ping_send"} /\ cpc'[c] = cpc[c]
WriterStops(c) == wtask[c] = "recv" /\ wtask'[c] = "ended"
C22_Step ==
    \A c \in Conns :
        (WriterStops(c) /\ ReaderRuns(c)) =>
            \/ queue[c] # <<>>
            \/ ~InIndex(c)
C22_Drained ==
    \A c \in Conns :
        (Overwritten(c) /\ wtask[c] = "recv" /\ queue[c] = <<>>) =>
            ENABLED WriterEnd(c)
C22_WriterEndsWhenSenderDropped == []C22_Drained /\ [][C22_Step]_vars
C22_Witness ==
    \E c \in Conns :
        /\ Overwritten(c)
        /\ cpc[c] = "read"
        /\ wtask[c] = "ended"
        /\ wire[c] = <<AuthResponse(TRUE)>>
\* C22 as stated: the outbound task of an overwritten session keeps running,
\* with its queue open, until the session's own reader loop ends.
C22_AsStated ==
    \A c \in Conns : (Overwritten(c) /\ wire[c] = <<AuthResponse(TRUE)>>) => ~Closed(c)

\* C23: a handler waiting for a client never sleeps through a registration:
\* whenever the index holds a session whose registration has been published,
\* a handler at rx.changed() is woken, and the wait ends with 503 only while
\* the index is empty or the publication is still to come.
Unpublished == \E c \in Conns : cpc[c] = "notify"
C23_Awake ==
    \A r \in Reqs :
        (rpc[r] = "wait_changed" /\ ~IsEmpty /\ ~Unpublished) =>
            ENABLED WaitChanged(r)
C23_Step ==
    \A r \in Reqs :
        (Waiting(r) /\ outcome'[r] = "wait_timeout") => (IsEmpty \/ Unpublished)
C23_NoMissedRegistration == []C23_Awake /\ [][C23_Step]_vars
\* the handler found the index empty, a client registered while it was at
\* rx.changed(), and the request went to that client
C23_Witness ==
    \E r \in Reqs :
        /\ rpc[r] = "await"
        /\ seen[r] = watchVer
        /\ watchVer = 1
        /\ hist[r].enq = <<regs[1]>>

\* C24: on a session whose reader is reading, an http_response or an error
\* whose request_id has no entry in pending_requests changes nothing:
\* pending_requests, the index, every slot and every caller's reply stay as
\* they are and the reader goes on reading.
OrphanArrives(c, r) ==
    \/ RecvResponseFor(c, r, MuxStatuses, MuxHeaders)
    \/ RecvErrorFor(c, r, MuxErrors)
C24_OrphanDropped ==
    \A c \in Conns, r \in Reqs :
        (cpc[c] = "read" /\ r \notin pending) =>
            ~ENABLED (OrphanArrives(c, r) /\ vars' # vars)
\* the session can receive a reply to a request that has timed out, a second
\* reply to an answered request, and a reply with an id never issued
C24_Witness ==
    /\ \E c \in Conns : cpc[c] = "read"
    /\ pending = {}
    /\ rpc[1] = "done"
    /\ outcome[1] \in {"timeout", "response"}
    /\ rpc[2] = "start"

\* C25: on a session whose reader is reading, a text frame that does not
\* parse and a message of a variant the server does not expect from a client
\* (auth, auth_response, http_request, pong, error without request_id) are
\* taken and change nothing: the session stays in the index, pending_requests
\* is unchanged and the reader goes on reading.
ViolationFrames ==
    {Garbage, Text(Pong(7)), Text(AuthResponse(TRUE)), Text(AuthResponse(FALSE)),
     Text(HttpRequest(1)),
     Text(AuthMsg("a", ServerNow, generate_auth_signature("a", ServerNow, Secret))),
     Text(ErrorMsg(NoReq, "invalid_message", "Unexpected message type"))}
C25_ViolationDropped ==
    \A c \in Conns, f \in ViolationFrames :
        cpc[c] = "read" =>
            /\ ENABLED ReadFrame(c, f)
            /\ ~ENABLED (ReadFrame(c, f) /\ vars' # vars)
\* a session in the index with a request dispatched to it and unanswered
C25_Witness ==
    \E c \in Conns :
        /\ cpc[c] = "read"
        /\ InIndex(c)
        /\ pending = {1}
        /\ hist[1].enq = <<c>>

\* C26: once the reader loop of a registered session has ended on a close
\* frame, a transport error or the end of the stream, the session is
\* eventually out of the index with its outbound task stopped, and from then
\* on no http_request is enqueued to it.
Removed(c) == cpc[c] = "done" /\ ~InIndex(c) /\ wtask[c] = "ended"
C26_Step ==
    \A c \in Conns : Removed(c) => queue'[c] = queue[c]
C26_ReaderEndRemovesSession ==
    /\ \A c \in Conns : (cpc[c] = "cleanup") ~> Removed(c)
    /\ [][C26_Step]_vars

\* C27: a request dispatched to a session and still unanswered when that
\* session's reader loop has ended eventually returns 502 or 504 with its
\* pending slot removed.
Disconnected(c) == cpc[c] \in {"cleanup", "done"} /\ wtask[c] # "none"
Unanswered(r, c) ==
    /\ rpc[r] \in {"send", "await", "timeout"}
    /\ slot[r] = NoSlot
    /\ IF rpc[r] = "send" THEN Target(r) = c ELSE hist[r].enq = <<c>>
Failed(r) == rpc[r] = "done" /\ status[r] \in {502, 504} /\ r \notin pending
C27_DisconnectFailsRequests ==
    \A r \in Reqs, c \in Conns :
        (Disconnected(c) /\ Unanswered(r, c)) ~> Failed(r)

\* C28: a session's outbound queue is drained in the order of the enqueues:
\* a sender appends at the end, the one writer transmits the message that has
\* been queued longest, and nothing but the writer or the end of the
\* connection takes a message out - on the server's queue of a session and on
\* the client's queue alike.
Grows(q, qq) == Len(qq) = Len(q) + 1 /\ SubSeq(qq, 1, Len(q)) = q
Drains(q, qq, w, ww) ==
    /\ q # <<>>
    /\ ww = Append(w, Head(q))
    /\ qq \in {Tail(q), <<>>}
Fifo(q, qq, w, ww) ==
    /\ ww # w => Drains(q, qq, w, ww)
    /\ (ww = w /\ qq # q) => (Grows(q, qq) \/ qq = <<>>)
\* the client's writer hands the message it receives to write.send at once
FifoOut(q, qq) == qq # q => (Grows(q, qq) \/ qq \in {Tail(q), <<>>})
C28_Step ==
    /\ \A c \in Conns :
        wtask[c] = "recv" => Fifo(queue[c], queue'[c], wire[c], wire'[c])
    /\ kwtask = "run" => FifoOut(kout, kout')
C28_QueueOrder == [][C28_Step]_vars
\* one message transmitted and two others waiting in the server's queue
C28_Witness ==
    /\ wire[1] = <<AuthResponse(TRUE), HttpRequest(1)>>
    /\ queue[1] = <<HttpRequest(2), Pong(7)>>

\* C29: connect() returns Ok, and the writer, the heartbeat and the handling
\* of requests start, exactly when the frame that answers the auth message
\* holds auth_response{success:true}; any other TunnelMessage makes connect()
\* return AuthFailed, and every frame but the successful one leaves the client
\* waiting to reconnect with no task started, no channel created and nothing
\* handled.
Succeeds(f) ==
    /\ from_ws_message(f).type = "auth_response"
    /\ from_ws_message(f).success
Started == kpc' = "select" /\ kwtask' = "run" /\ kout' = <<>> /\ hbeats' = hbeats + 1
NothingStarted ==
    /\ kpc' = "backoff"
    /\ UNCHANGED <<kwtask, kout, kmsg, kres, kha, klog, beats, hbeats>>
C29_State ==
    \A f \in ClientAuthFrames :
        kpc = "auth_wait" =>
            /\ ENABLED AuthReplyWith(f)
            /\ Succeeds(f) => ~ENABLED (AuthReplyWith(f) /\ ~Started)
            /\ ~Succeeds(f) => ~ENABLED (AuthReplyWith(f) /\ ~NothingStarted)
            /\ (~Succeeds(f) /\ from_ws_message(f) # NoMsg) =>
                    ConnectResult(f) = "auth_failed"
C29_Step ==
    /\ (kwtask' = "run" /\ kwtask # "run") => kpc = "auth_wait"
    /\ (kpc' = "select" /\ kpc \notin {"select", "handle", "send"}) => kpc = "auth_wait"
    /\ (kpc' = "handle" /\ kpc # "handle") => (kpc = "select" /\ kwtask # "none")
    /\ (klog' # klog \/ kha' # kha) => kpc \in {"handle", "ha_wait"}
    /\ beats' # beats => kwtask = "run"
    /\ hbeats' > hbeats => (kpc = "auth_wait" /\ kpc' = "select")
C29_ConnectOnlyOnSuccess == []C29_State /\ [][C29_Step]_vars
\* the client waits for the answer to its auth message on a second connection,
\* after a first one on which it handled a request
C29_Witness ==
    /\ kpc = "auth_wait"
    /\ Len(klog) = 1
    /\ kwtask = "none"

\* C30: a failed connect and a lost connection both lead to the reconnect
\* wait, a new attempt starts only from the top of the loop after that wait,
\* and the wait ends in a new attempt or in the exit on shutdown; a heartbeat
\* task exists only while main is in the request loop of its connection, so
\* there is at most one and no ping is enqueued outside that loop.
Connected == kpc \in {"select", "handle", "ha_wait", "send"}
Attempting == kpc \in {"dial", "auth_wait"}
C30_State ==
    /\ hbeats <= 1
    /\ hbeats = 1 <=> Connected
C30_Step ==
    /\ (Attempting /\ kpc' \notin {"dial", "auth_wait", "select"}) => kpc' = "backoff"
    /\ (Connected /\ kpc' \notin {"select", "handle", "ha_wait", "send"}) =>
            (kpc' = "backoff" \/ (shutdown /\ kpc' = "exit"))
    /\ (kpc' = "dial" /\ kpc # "dial") => (kpc = "top" /\ ~shutdown)
    /\ (kpc' = "top" /\ kpc # "top") => kpc = "backoff"
    /\ kpc' = "exit" => shutdown
    /\ beats' # beats => (Connected /\ hbeats = 1 /\ kpc' = kpc)
C30_ReconnectLoop ==
    /\ []C30_State
    /\ [][C30_Step]_vars
    /\ (kpc = "backoff") ~> (kpc = "dial" \/ kpc = "exit")
\* a new attempt after a connection on which a request was handled and a
\* ping was sent
C30_Witness ==
    /\ kpc = "dial"
    /\ Len(klog) = 1
    /\ beats = 1
    /\ hbeats = 0

\* C31: handle_request returns nothing for a pong and, for a message that is
\* neither http_request nor pong, the one reply error{code:"invalid_message"}
\* without request_id; a server session that reads this error changes nothing
\* and sends nothing back.
InvalidMessage == ErrorMsg(NoReq, "invalid_message", "Unexpected message type")
C31_State ==
    /\ \A i \in 1..Len(klog) :
        /\ klog[i][1].type # "pong"
        /\ klog[i][1].type # "http_request" => klog[i][2] = InvalidMessage
    /\ \A c \in Conns :
        cpc[c] = "read" =>
            /\ ENABLED ReadFrame(c, Text(InvalidMessage))
            /\ ~ENABLED (ReadFrame(c, Text(InvalidMessage)) /\ vars' # vars)
C31_Step ==
    /\ (kpc = "handle" /\ kpc' # "handle" /\ kmsg.type = "pong") =>
            (kpc' = "select" /\ UNCHANGED <<kout, klog, kres>>)
    /\ (kpc = "handle" /\ kpc' # "handle"
            /\ kmsg.type \notin {"pong", "http_request"}) =>
            /\ kpc' = "send"
            /\ kres' = InvalidMessage
            /\ klog' = Append(klog, <<kmsg, InvalidMessage>>)
            /\ kout' = kout
    /\ (kpc = "send" /\ kpc' # "send") =>
            (kout' = Append(kout, kres) \/ kpc' = "backoff")
C31_InvalidMessage == []C31_State /\ [][C31_Step]_vars
\* the client has answered an http_response and the reply is in its queue
C31_Witness ==
    \E i \in 1..Len(klog) :
        /\ klog[i][1].type = "http_response"
        /\ kout = <<klog[i][2]>>
        /\ kpc = "select"

\* C32: parse_x_forwarded_for returns the leftmost comma-separated token of
\* the value without its surrounding whitespace, parse_simple_ip_header the
\* value without its surrounding whitespace; both return None when that is
\* empty, and extract_client_ip then returns the peer's address, as it does
\* when the configured header is absent.
Leftmost(v) ==
    LET commas == {i \in 1..Len(v) : v[i] = ","} IN
    IF commas = {} THEN v
    ELSE SubSeq(v, 1, (CHOOSE i \in commas : \A j \in commas : i <= j) - 1)
Stripped(v) ==
    LET solid == {i \in 1..Len(v) : v[i] \notin {" ", "\t"}} IN
    IF solid = {} THEN <<>>
    ELSE SubSeq(v, CHOOSE i \in solid : \A j \in solid : i <= j,
                   CHOOSE i \in solid : \A j \in solid : j <= i)
OrNone(v) == IF v = <<>> THEN None ELSE Some(v)
HeaderRead(call) ==
    /\ ipcfg.proxy_mode # "none"
    /\ (ipcfg.trusted_proxies = {} \/ call.peer \in ipcfg.trusted_proxies)
C32_SimpleHeaders ==
    \A i \in 1..Len(ipcalls) :
        LET call == ipcalls[i]
            value == call.header.value
            wanted == IF ipcfg.proxy_mode = "x-forwarded-for"
                      THEN Stripped(Leftmost(value)) ELSE Stripped(value)
        IN  /\ parse_x_forwarded_for(value) = OrNone(Stripped(Leftmost(value)))
            /\ parse_simple_ip_header(value) = OrNone(Stripped(value))
            /\ (HeaderRead(call) /\ ipcfg.proxy_mode # "forwarded") =>
                    call.out = IF call.header.name # ipcfg.proxy_mode
                                  \/ wanted = <<>>
                               THEN <<call.peer>> ELSE wanted
\* one call returned the first token of a list, another the peer's address
\* for a blank header
C32_Witness ==
    /\ ipcfg.proxy_mode = "x-forwarded-for"
    /\ \E i, j \in 1..Len(ipcalls) :
        /\ HeaderRead(ipcalls[i])
        /\ ipcalls[i].header =
             [name |-> "x-forwarded-for",
              value |-> <<"203.0.113.5", "\t", ",", "10.0.0.1">>]
        /\ ipcalls[i].out = <<"203.0.113.5">>
        /\ HeaderRead(ipcalls[j])
        /\ ipcalls[j].header = [name |-> "x-forwarded-for", value |-> <<" ">>]
        /\ ipcalls[j].out = <<ipcalls[j].peer>>

\* C33: parse_forwarded_header reads the first comma-separated element only,
\* takes its first directive that starts with for= in any case, removes
\* surrounding double quotes, returns what is between [ and ] for a bracketed
\* literal, and removes :port exactly when the value has one colon and only
\* digits and dots to the left of it; without a for= directive in the first
\* element the result is None.
Without(v, C) ==
    LET solid == {i \in 1..Len(v) : v[i] \notin C} IN
    IF solid = {} THEN <<>>
    ELSE SubSeq(v, CHOOSE i \in solid : \A j \in solid : i <= j,
                   CHOOSE i \in solid : \A j \in solid : j <= i)
\* the directives of an element, by the positions of its semicolons
Directives(el) ==
    LET cuts == {0, Len(el) + 1} \cup {i \in 1..Len(el) : el[i] = ";"} IN
    {<<a, Without(SubSeq(el, a + 1, b - 1), {" ", "\t"})>> :
        <<a, b>> \in {p \in cuts \X cuts :
                        /\ p[1] < p[2]
                        /\ \A k \in cuts : ~(p[1] < k /\ k < p[2])}}
ForDirectives(el) ==
    {d \in Directives(el) : d[2] # <<>> /\ d[2][1] \in {"for=", "FOR=", "For="}}
Cleaned(raw) ==
    LET ip == Without(Without(raw, {" ", "\t"}), {"\""})
        colons == {i \in 1..Len(ip) : ip[i] = ":"}
        closing == {i \in 1..Len(ip) : ip[i] = "]"}
    IN  IF ip # <<>> /\ ip[1] = "[" /\ closing # {}
        THEN SubSeq(ip, 2, (CHOOSE i \in closing : \A j \in closing : i <= j) - 1)
        ELSE IF /\ Cardinality(colons) = 1
                /\ \A c \in colons : \A i \in 1..(c - 1) :
                       ip[i] \in DigitsAndDots \cup {"."}
        THEN SubSeq(ip, 1, (CHOOSE c \in colons : TRUE) - 1)
        ELSE ip
ForwardedFor(value) ==
    LET fors == ForDirectives(Leftmost(value)) IN
    IF fors = {} THEN None
    ELSE LET d == CHOOSE x \in fors : \A y \in fors : x[1] <= y[1]
         IN Some(Cleaned(Tail(d[2])))
C33_Forwarded ==
    \A i \in 1..Len(ipcalls) :
        LET call == ipcalls[i] IN
        /\ parse_forwarded_header(call.header.value) =
                ForwardedFor(call.header.value)
        /\ (HeaderRead(call) /\ ipcfg.proxy_mode = "forwarded"
                /\ call.header.name = "forwarded") =>
             call.out = IF ForwardedFor(call.header.value) = None
                        THEN <<call.peer>>
                        ELSE ForwardedFor(call.header.value)[2]
\* one call returned the contents of a quoted bracketed literal with a port,
\* another an address without its port
C33_Witness ==
    /\ ipcfg.proxy_mode = "forwarded"
    /\ \E i, j \in 1..Len(ipcalls) :
        /\ HeaderRead(ipcalls[i])
        /\ ipcalls[i].header =
             [name |-> "forwarded",
              value |-> <<"for=", "\"", "[", "2001", ":", "db8", "]", ":",
                          "4711", "\"">>]
        /\ ipcalls[i].out = <<"2001", ":", "db8">>
        /\ HeaderRead(ipcalls[j])
        /\ ipcalls[j].header =
             [name |-> "forwarded",
              value |-> <<"for=", "203.0.113.5", ":", "4711">>]
        /\ ipcalls[j].out = <<"203.0.113.5">>

\* C35: extract_client_ip never returns the empty string: the result of every
\* call is a non-empty value parsed from the configured header or the peer's
\* address.
C35_NeverEmpty ==
    \A i \in 1..Len(ipcalls) :
        /\ ipcalls[i].out # <<>>
        /\ \/ ipcalls[i].out = <<ipcalls[i].peer>>
           \/ /\ HeaderRead(ipcalls[i])
              /\ ipcalls[i].header.name = ipcfg.proxy_mode
              /\ Some(ipcalls[i].out) =
                   ParseHeader(ipcfg.proxy_mode, ipcalls[i].header.value)

\* C34: every public request is eventually answered: from its arrival on, the
\* handler returns, whatever the clients do.
Arrived(r) == rpc[r] # "start"
Answered(r) == rpc[r] = "done" /\ outcome[r] # "none"
C34_EveryRequestAnswered ==
    \A r \in Reqs : Arrived(r) ~> Answered(r)

\* C36: the client handles one message at a time: while a message is being
\* handled no further message is taken, however long Home Assistant takes;
\* the next one is taken only when the reply has been enqueued, so the
\* replies enter the queue in the order of their requests.
Busy == kpc \in {"handle", "ha_wait", "send"}
Takes == kmsg' # kmsg \/ (kpc = "select" /\ kpc' = "handle")
C36_State ==
    /\ Busy => ~ENABLED ClientRecv
    /\ kpc = "send" => (klog # <<>> /\ klog[Len(klog)] = <<kmsg, kres>>)
C36_Step ==
    /\ Takes => (kpc = "select" /\ kpc' = "handle" /\ UNCHANGED <<klog, kout>>)
    /\ (Busy /\ kpc' = "select" /\ IsRequest(kmsg)) =>
            /\ kpc = "send"
            /\ kout' = Append(kout, klog[Len(klog)][2])
            /\ klog[Len(klog)][1] = kmsg
    /\ (kout' # kout /\ Len(kout') > Len(kout) /\ kpc' # "select") =>
            (kout' = Append(kout, Ping(7)) /\ kpc' = kpc)
C36_OneAtATime == []C36_State /\ [][C36_Step]_vars
\* two requests have been handled, the first by a call to Home Assistant, and
\* the reply to the second is in the queue
C36_Witness ==
    /\ Len(klog) = 2
    /\ IsRequest(klog[1][1]) /\ Upstream(klog[1][2])
    /\ IsRequest(klog[2][1]) /\ klog[2][1] # klog[1][1]
    /\ kout = <<klog[2][2]>>
    /\ kpc = "select"
====
